---------------------------- MODULE Spec2Model ----------------------------
(***************************************************************************)
(* Model of the rdcworm game server (server/src/index.ts with the pure     *)
(* helpers of server/src/game-engine.ts and shared/engine/math.js).        *)
(*                                                                         *)
(* Units.  The server computes in floating point; the model is fixed       *)
(* point:                                                                  *)
(*   - lengths, positions and speeds are in tenths of a world unit         *)
(*     (BASE_SPEED 4.0 is 40, a 2000 wide world is 20000);                 *)
(*   - scores are in tenths of a point (score 10 is 100, the boost cost    *)
(*     0.5 is 5);                                                          *)
(*   - thickness is in hundredths (14 is 1400);                            *)
(*   - angles are in centiradians (TURN_SPEED 0.12 is 12, a full turn is   *)
(*     628); Math.cos / Math.sin are Bhaskara's rational approximation,    *)
(*     in thousandths;                                                     *)
(*   - Math.random() is a number of ten-thousandths, 0..9999;              *)
(*   - time is in milliseconds, counted from an arbitrary origin.          *)
(***************************************************************************)
EXTENDS Integers, Sequences, FiniteSets, TLC

VARIABLES
    rooms,          \* rooms: Map<roomId, Room>
    players,        \* legacy global players map (insertion ordered)
    conns,          \* per connection closure: status, me, currentRoomId, isAdmin, ws.roomId
    adminSockets,   \* Set of admin socket ids
    socketToRoom,   \* Map socket id -> room id
    now,            \* Date.now()
    sent,           \* messages sent by the last handler, in order
    ev,             \* the last handler that ran, with what it observed
    ticks,          \* number of room-loop ticks run so far
    msgs,           \* number of messages and closes handled so far
    running         \* the interval callback on the call stack, with its position

vars == <<rooms, players, conns, adminSockets, socketToRoom, now, sent, ev, ticks, msgs,
          running>>

-----------------------------------------------------------------------------
(* Bounds of the exploration *)

MaxConns == 3
CasualTicks == 2
CasualMsgs == 3
BoostTicks == 4
BoostMsgs == 3
FoodTicks == 2
FoodMsgs == 3
FoodsSoFar == 400
LoopTicks == 2
LoopMsgs == 3
MsgTicks == 2
MsgMsgs == 4
FeedTicks == 4
FeedMsgs == 5
MaxTicks == 5
MaxMsgs == 3
JoinTicks == 2
JoinMsgs == 3
AdminTicks == 2
AdminMsgs == 3
SeedTournament == 5
SeedCasual == 6
StartTime == 1000000
MaxCoord == 40
MaxSize == 12
MaxScore == 11000
MaxSegments == 2
MaxCrowd == 4
CrowdTicks == 2
CrowdMsgs == 4

-----------------------------------------------------------------------------
(* Program constants *)

TICK_HZ == 30
STATE_HZ == 30
ADMIN_TOKEN == "josie"
WORLD == [width |-> 20000, height |-> 12000]
ROUND_DURATION == 600000
CELL_SIZE == 1000
HINGE == 6
START_SCORE == 100
START_THICKNESS == 1400
MAX_POINT == 10000
MAX_FOOD == 400

FOOD_R2 == 180 * 180
HEAD_R2 == 140 * 140
TURN_SPEED == 12
BASE_SPEED == 40
BOOST_MULTIPLIER == 18
BOOST_COST_PER_TICK == 5

RoomIds == {"arena1", "arena2", "arena3", "deathmatch", "chill"}

ROOM_CONFIGS ==
    [r \in RoomIds |->
        CASE r = "deathmatch" ->
                [id |-> r, world |-> [width |-> 10000, height |-> 6000],
                 maxPlayers |-> 12, type |-> "tournament"]
          [] r = "chill" ->
                [id |-> r, world |-> [width |-> 25000, height |-> 15000],
                 maxPlayers |-> 30, type |-> "casual"]
          [] OTHER ->
                [id |-> r, world |-> [width |-> 20000, height |-> 12000],
                 maxPlayers |-> 20, type |-> "tournament"]]

FOOD_TYPES ==
    [bug |-> [value |-> 50], jira |-> [value |-> 100], zillow |-> [value |-> 300]]

-----------------------------------------------------------------------------
(* Arithmetic helpers *)

Min(a, b) == IF a <= b THEN a ELSE b
Max(a, b) == IF a >= b THEN a ELSE b

\* integer division truncating toward zero, as a float product rounds to
\* the fixed-point grid symmetrically
Trunc(n, d) == IF n >= 0 THEN n \div d ELSE -((-n) \div d)

\* the JavaScript remainder: the sign of the dividend
JsMod(a, n) == IF a >= 0 THEN a % n ELSE -((-a) % n)

\* Math.ceil(a / b) for positive a, b
CeilDiv(a, b) == (a + b - 1) \div b

\* Math.sin on centiradians, in thousandths
HalfSin(x) == (16000 * x * (314 - x)) \div (5 * 314 * 314 - 4 * x * (314 - x))
Sin(a) == LET m == a % 628 IN IF m <= 314 THEN HalfSin(m) ELSE -HalfSin(m - 314)
Cos(a) == Sin(a + 157)

\* Math.random() * size
RandomTimes(rnd, size) == (rnd * size) \div MAX_POINT

-----------------------------------------------------------------------------
(* server/src/game-engine.ts *)

wrap(v, max) ==
    IF v < 0 THEN v + max
    ELSE IF v >= max THEN v - max
    ELSE v

dist2(a, b) ==
    LET dx == a.x - b.x
        dy == a.y - b.y
    IN  dx * dx + dy * dy

\* a body length without the cap of 300
calculateBodyLengthNoCap(score) ==
    LET targetLen == Max(15, (score * 8) \div 100)
    IN  targetLen

calculateBodyLength(score) ==
    LET targetLen == Max(15, (score * 8) \div 100)
        maxLen == 300
    IN  Min(targetLen, maxLen)

\* a thickness whose bonus is not capped
calculateThicknessNoCap(score) ==
    LET targetLen == Max(15, (score * 8) \div 100)
        maxLen == 300
        baseThickness == 1400
    IN  IF targetLen >= maxLen
        THEN LET excessScore == score - 3750
             IN  baseThickness + Max(0, excessScore)
        ELSE baseThickness

calculateThickness(score) ==
    LET targetLen == Max(15, (score * 8) \div 100)
        maxLen == 300
        baseThickness == 1400
        maxThickness == 2800
    IN  IF targetLen >= maxLen
        THEN LET excessScore == score - 3750
                 thicknessBonus == Min(excessScore, maxThickness - baseThickness)
             IN  baseThickness + Max(0, thicknessBonus)
        ELSE baseThickness

\* score is in tenths of a point: Math.floor(score / 8) is score \div 80
calculateFoodBurst(bodyLength, score) ==
    LET bodySegments == Min(bodyLength, 150)
        segmentFood == bodySegments \div 3
        bonusFood == Min(score \div 80, 25)
    IN  [segmentFood |-> segmentFood, bonusFood |-> bonusFood]

(* shared/engine/math.js *)

wrapDelta(d, size) ==
    IF 2 * d > size THEN d - size
    ELSE IF 2 * d < -size THEN d + size
    ELSE d

torusDistSq(a, b, w) ==
    LET dx == wrapDelta(b.x - a.x, w.width)
        dy == wrapDelta(b.y - a.y, w.height)
    IN  dx * dx + dy * dy

-----------------------------------------------------------------------------
(* Sequence helpers *)

RemoveAt(s, i) == SubSeq(s, 1, i - 1) \o SubSeq(s, i + 1, Len(s))

Truncate(s, n) == IF Len(s) > n THEN SubSeq(s, 1, n) ELSE s

\* index of the entry of a Map (kept as a sequence in insertion order) with
\* key id, 0 when there is none
RECURSIVE IndexFrom(_, _, _)
IndexFrom(m, id, i) ==
    IF i > Len(m) THEN 0
    ELSE IF m[i].id = id THEN i
    ELSE IndexFrom(m, id, i + 1)

IndexOf(m, id) == IndexFrom(m, id, 1)

MapHas(m, id) == IndexOf(m, id) # 0

\* Map.set: a present key keeps its place, a new key goes last
MapSet(m, id, v) ==
    IF MapHas(m, id) THEN [m EXCEPT ![IndexOf(m, id)] = v] ELSE Append(m, v)

\* Map.delete
MapDelete(m, id) ==
    IF MapHas(m, id) THEN RemoveAt(m, IndexOf(m, id)) ELSE m

-----------------------------------------------------------------------------
(* class SpatialGrid *)

SpatialGrid(worldWidth, worldHeight, cellSize) ==
    [cellSize |-> cellSize,
     worldWidth |-> worldWidth,
     worldHeight |-> worldHeight,
     cols |-> CeilDiv(worldWidth, cellSize),
     rows |-> CeilDiv(worldHeight, cellSize),
     grid |-> <<>>]

cellKey(g, x, y) ==
    LET cx == JsMod(x \div g.cellSize, g.cols)
        cy == JsMod(y \div g.cellSize, g.rows)
    IN  <<cx, cy>>

\* the grid Map is kept as the sequence of its entries in insertion order,
\* each with the key of its cell
insert(g, segment, ownerId, segmentIndex) ==
    [g EXCEPT !.grid = Append(@, [key |-> cellKey(g, segment.x, segment.y),
                                  segment |-> segment,
                                  ownerId |-> ownerId,
                                  segmentIndex |-> segmentIndex])]

gridCell(g, key) ==
    LET InCell(e) == e.key = key
    IN  SelectSeq(g.grid, InCell)

\* a query of the centre cell and its four side neighbours only
NeighbourOffsetsNoCorners ==
    << <<-1, 0>>, <<0, -1>>, <<0, 0>>, <<0, 1>>, <<1, 0>> >>

\* the nine (dx, dy) of the two nested loops, in loop order
NeighbourOffsets ==
    << <<-1, -1>>, <<-1, 0>>, <<-1, 1>>,
       <<0, -1>>,  <<0, 0>>,  <<0, 1>>,
       <<1, -1>>,  <<1, 0>>,  <<1, 1>> >>

\* a query whose cell indices are not wrapped
RECURSIVE queryFromNoWrap(_, _, _, _)
queryFromNoWrap(g, cx, cy, k) ==
    IF k > Len(NeighbourOffsets) THEN <<>>
    ELSE LET checkX == cx + NeighbourOffsets[k][1]
             checkY == cy + NeighbourOffsets[k][2]
         IN  gridCell(g, <<checkX, checkY>>) \o queryFromNoWrap(g, cx, cy, k + 1)

RECURSIVE queryFrom(_, _, _, _)
queryFrom(g, cx, cy, k) ==
    IF k > Len(NeighbourOffsets) THEN <<>>
    ELSE LET checkX == JsMod(cx + NeighbourOffsets[k][1] + g.cols, g.cols)
             checkY == JsMod(cy + NeighbourOffsets[k][2] + g.rows, g.rows)
         IN  gridCell(g, <<checkX, checkY>>) \o queryFrom(g, cx, cy, k + 1)

queryNearby(g, pos) ==
    LET cx == pos.x \div g.cellSize
        cy == pos.y \div g.cellSize
    IN  queryFrom(g, cx, cy, 1)

-----------------------------------------------------------------------------
(* Food *)

\* rnd.fx, rnd.fy: the two draws of a plain food point
randomFood(world, rnd) ==
    [x |-> RandomTimes(rnd.fx, world.width), y |-> RandomTimes(rnd.fy, world.height)]

\* rnd.bt: the draw of the kind; rnd.bx, rnd.by: the draws of the point
generateBonusFoodForRoom(world, rnd) ==
    LET type == IF rnd.bt < 500 THEN "zillow"
                ELSE IF rnd.bt < 3000 THEN "jira"
                ELSE "bug"
    IN  [x |-> RandomTimes(rnd.bx, world.width),
         y |-> RandomTimes(rnd.by, world.height),
         type |-> type,
         value |-> FOOD_TYPES[type].value]

\* a food burst whose points are not passed through wrap
createFoodBurstNoWrap(player, world, rnd) ==
    LET bodySegments == Min(Len(player.body), 150)
        segmentFood == bodySegments \div 3
        bonusFoodCount == Min(player.score \div 80, 25)
        offsetX == RandomTimes(rnd.jx, 400) - 200
        offsetY == RandomTimes(rnd.jy, 400) - 200
        radius == 600 + RandomTimes(rnd.rr, 400)
        fromBody == [i \in 1..segmentFood |->
                        LET segment == player.body[(i - 1) * 3 + 1]
                        IN  [x |-> segment.x + offsetX, y |-> segment.y + offsetY]]
        circle == [i \in 1..bonusFoodCount |->
                        LET angle == (628 * (i - 1)) \div bonusFoodCount
                        IN  [x |-> player.pos.x + Trunc(Cos(angle) * radius, 1000),
                             y |-> player.pos.y + Trunc(Sin(angle) * radius, 1000)]]
    IN  fromBody \o circle

\* rnd.jx, rnd.jy: the draws of the jitter; rnd.rr: the draw of the radius
createFoodBurstInRoom(player, world, rnd) ==
    LET bodySegments == Min(Len(player.body), 150)
        segmentFood == bodySegments \div 3
        bonusFoodCount == Min(player.score \div 80, 25)
        offsetX == RandomTimes(rnd.jx, 400) - 200
        offsetY == RandomTimes(rnd.jy, 400) - 200
        radius == 600 + RandomTimes(rnd.rr, 400)
        \* segmentIndex = i * 3 is below body.length for every i < segmentFood
        fromBody == [i \in 1..segmentFood |->
                        LET segment == player.body[(i - 1) * 3 + 1]
                        IN  [x |-> wrap(segment.x + offsetX, world.width),
                             y |-> wrap(segment.y + offsetY, world.height)]]
        circle == [i \in 1..bonusFoodCount |->
                        LET angle == (628 * (i - 1)) \div bonusFoodCount
                        IN  [x |-> wrap(player.pos.x + Trunc(Cos(angle) * radius, 1000),
                                        world.width),
                             y |-> wrap(player.pos.y + Trunc(Sin(angle) * radius, 1000),
                                        world.height)]]
    IN  fromBody \o circle

-----------------------------------------------------------------------------
(* stepRoom *)

\* a movement step that spends score on boosting without a floor
movePlayerNoFloor(p, world) ==
    IF ~p.alive THEN p
    ELSE
    LET angle == p.angle + p.turn * TURN_SPEED
        boost == p.boosting
        speed == IF boost THEN (BASE_SPEED * BOOST_MULTIPLIER) \div 10 ELSE BASE_SPEED
        score == IF boost THEN p.score - BOOST_COST_PER_TICK ELSE p.score
        pos == [x |-> wrap(p.pos.x + Trunc(Cos(angle) * speed, 1000), world.width),
                y |-> wrap(p.pos.y + Trunc(Sin(angle) * speed, 1000), world.height)]
        finalLen == calculateBodyLength(score)
    IN  [p EXCEPT !.angle = angle,
                  !.speed = speed,
                  !.score = score,
                  !.pos = pos,
                  !.body = Truncate(<<pos>> \o p.body, finalLen),
                  !.thickness = calculateThickness(score)]

\* a movement step that clears boosting only below the floor, not at it
movePlayerLateStop(p, world) ==
    IF ~p.alive THEN p
    ELSE
    LET angle == p.angle + p.turn * TURN_SPEED
        boost == p.boosting /\ p.score > 100
        spent == p.score - BOOST_COST_PER_TICK
        speed == IF boost THEN (BASE_SPEED * BOOST_MULTIPLIER) \div 10 ELSE BASE_SPEED
        score == IF boost THEN (IF spent < 100 THEN 100 ELSE spent) ELSE p.score
        boosting == IF boost THEN (IF spent < 100 THEN FALSE ELSE p.boosting) ELSE FALSE
        pos == [x |-> wrap(p.pos.x + Trunc(Cos(angle) * speed, 1000), world.width),
                y |-> wrap(p.pos.y + Trunc(Sin(angle) * speed, 1000), world.height)]
        finalLen == calculateBodyLength(score)
    IN  [p EXCEPT !.angle = angle,
                  !.speed = speed,
                  !.score = score,
                  !.boosting = boosting,
                  !.pos = pos,
                  !.body = Truncate(<<pos>> \o p.body, finalLen),
                  !.thickness = calculateThickness(score)]

\* the body of the "move players" loop for one worm
movePlayer(p, world) ==
    IF ~p.alive THEN p
    ELSE
    LET angle == p.angle + p.turn * TURN_SPEED
        boost == p.boosting /\ p.score > 100
        spent == p.score - BOOST_COST_PER_TICK
        speed == IF boost THEN (BASE_SPEED * BOOST_MULTIPLIER) \div 10 ELSE BASE_SPEED
        score == IF boost THEN (IF spent <= 100 THEN 100 ELSE spent) ELSE p.score
        boosting == IF boost THEN (IF spent <= 100 THEN FALSE ELSE p.boosting) ELSE FALSE
        pos == [x |-> wrap(p.pos.x + Trunc(Cos(angle) * speed, 1000), world.width),
                y |-> wrap(p.pos.y + Trunc(Sin(angle) * speed, 1000), world.height)]
        finalLen == calculateBodyLength(score)
    IN  [p EXCEPT !.angle = angle,
                  !.speed = speed,
                  !.score = score,
                  !.boosting = boosting,
                  !.pos = pos,
                  !.body = Truncate(<<pos>> \o p.body, finalLen),
                  !.thickness = calculateThickness(score)]

movePlayers(ps, world) == [i \in 1..Len(ps) |-> movePlayer(ps[i], world)]

\* a search for the eater that does not skip dead worms
RECURSIVE firstEaterDeadToo(_, _, _)
firstEaterDeadToo(ps, f, j) ==
    IF j > Len(ps) THEN 0
    ELSE IF dist2(ps[j].pos, f) <= FOOD_R2 THEN j
    ELSE firstEaterDeadToo(ps, f, j + 1)

\* the first worm in Map order that is alive and has its head within FOOD_R2
\* of f; 0 when there is none
RECURSIVE firstEater(_, _, _)
firstEater(ps, f, j) ==
    IF j > Len(ps) THEN 0
    ELSE IF ps[j].alive /\ dist2(ps[j].pos, f) <= FOOD_R2 THEN j
    ELSE firstEater(ps, f, j + 1)

\* one pass of the body of the "eat food" loop, at index i;
\* st = [foods, ps, eaten]
eatFoodAt(st, i, world, rnd) ==
    LET f == st.foods[i]
        j == firstEater(st.ps, f, 1)
    IN  IF j = 0 THEN st
        ELSE [foods |-> Append(RemoveAt(st.foods, i), randomFood(world, rnd)),
              ps |-> [st.ps EXCEPT ![j].score = @ + 10],
              eaten |-> Append(st.eaten, [food |-> f, by |-> st.ps[j].id])]

\* the passes of the "eat food" loop for the indices from hi down to lo, in
\* that order: the upper half of the range first, then the lower half
RECURSIVE eatFoodRange(_, _, _, _, _)
eatFoodRange(st, hi, lo, world, rnd) ==
    IF hi < lo THEN st
    ELSE IF hi = lo THEN eatFoodAt(st, hi, world, rnd)
    ELSE LET mid == (hi + lo) \div 2
         IN  CHOOSE done \in
                    {eatFoodRange(upper, mid, lo, world, rnd) :
                        upper \in {eatFoodRange(st, hi, mid + 1, world, rnd)}} : TRUE

\* the "eat food" loop from index i down
eatFood(st, i, world, rnd) == eatFoodRange(st, i, 1, world, rnd)

\* an "eat bonus food" loop that does not replace the item it removes
RECURSIVE eatBonusFoodNoRespawn(_, _, _, _)
eatBonusFoodNoRespawn(st, i, world, rnd) ==
    IF i < 1 THEN st
    ELSE LET f == st.foods[i]
             j == firstEater(st.ps, f, 1)
         IN  IF j = 0 THEN eatBonusFoodNoRespawn(st, i - 1, world, rnd)
             ELSE eatBonusFoodNoRespawn(
                          [foods |-> RemoveAt(st.foods, i),
                           ps |-> [st.ps EXCEPT ![j].score = @ + f.value],
                           eaten |-> Append(st.eaten, [food |-> f, by |-> st.ps[j].id])],
                          i - 1, world, rnd)

\* the "eat bonus food" loop from index i down; st = [foods, ps, eaten]
RECURSIVE eatBonusFood(_, _, _, _)
eatBonusFood(st, i, world, rnd) ==
    IF i < 1 THEN st
    ELSE LET f == st.foods[i]
             j == firstEater(st.ps, f, 1)
         IN  IF j = 0 THEN eatBonusFood(st, i - 1, world, rnd)
             ELSE eatBonusFood(
                          [foods |-> Append(RemoveAt(st.foods, i),
                                            generateBonusFoodForRoom(world, rnd)),
                           ps |-> [st.ps EXCEPT ![j].score = @ + f.value],
                           eaten |-> Append(st.eaten, [food |-> f, by |-> st.ps[j].id])],
                          i - 1, world, rnd)

\* insert the segments of worm p from index i (0-based) on
RECURSIVE insertBody(_, _, _)
insertBody(g, p, i) ==
    IF i >= Len(p.body) THEN g
    ELSE insertBody(insert(g, p.body[i + 1], p.id, i), p, i + 1)

\* "Build spatial grid from all body segments"
RECURSIVE buildGrid(_, _, _)
buildGrid(g, ps, k) ==
    IF k > Len(ps) THEN g
    ELSE IF ~ps[k].alive THEN buildGrid(g, ps, k + 1)
    ELSE buildGrid(insertBody(g, ps[k], 0), ps, k + 1)

\* the test of the inner loop: the segment is not skipped by the hinge and
\* is within HEAD_R2 of the head
kills(p, e) ==
    /\ ~(e.ownerId = p.id /\ e.segmentIndex < HINGE)
    /\ dist2(p.pos, e.segment) < HEAD_R2

headHit(p, g) ==
    LET nearbySegments == queryNearby(g, p.pos)
    IN  \E k \in 1..Len(nearbySegments) : kills(p, nearbySegments[k])

\* whether the outer loop of the body pass goes on after worm p
bodyPassGoesOn(p) == p.alive

\* "Check each player head against nearby segments only", from worm k on;
\* st = [ps, dead, foods]
RECURSIVE bodyPass(_, _, _, _, _)
bodyPass(st, g, k, world, rnd) ==
    IF k > Len(st.ps) THEN st
    ELSE LET p == st.ps[k]
         IN  IF ~p.alive THEN bodyPass(st, g, k + 1, world, rnd)
             ELSE LET hit == headHit(p, g)
                      q == IF hit THEN [p EXCEPT !.alive = FALSE] ELSE p
                      st2 == IF hit
                             THEN [ps |-> [st.ps EXCEPT ![k] = q],
                                   dead |-> Append(st.dead, p.id),
                                   foods |-> st.foods \o createFoodBurstInRoom(q, world, rnd)]
                             ELSE st
                  IN  IF ~bodyPassGoesOn(q) THEN st2
                      ELSE bodyPass(st2, g, k + 1, world, rnd)

\* indices of the worms of ps that are alive, in Map order
aliveIndices(ps) ==
    LET I == 1..Len(ps)
        IsAlive(i) == ps[i].alive
    IN  SelectSeq([i \in I |-> i], IsAlive)

\* "Check head-to-head collisions", at pair (i, j) of alivePlayers;
\* st = [ps, dead, foods]
RECURSIVE headPass(_, _, _, _, _, _)
headPass(st, alivePlayers, i, j, world, rnd) ==
    IF i > Len(alivePlayers) THEN st
    ELSE IF j > Len(alivePlayers)
    THEN headPass(st, alivePlayers, i + 1, i + 2, world, rnd)
    ELSE LET a == alivePlayers[i]
             b == alivePlayers[j]
             playerA == st.ps[a]
             playerB == st.ps[b]
         IN  IF dist2(playerA.pos, playerB.pos) < HEAD_R2
             THEN LET deadA == [playerA EXCEPT !.alive = FALSE]
                      deadB == [playerB EXCEPT !.alive = FALSE]
                  IN  headPass([ps |-> [st.ps EXCEPT ![a] = deadA, ![b] = deadB],
                                dead |-> st.dead \o <<playerA.id, playerB.id>>,
                                foods |-> st.foods
                                            \o createFoodBurstInRoom(deadA, world, rnd)
                                            \o createFoodBurstInRoom(deadB, world, rnd)],
                               alivePlayers, i, j + 1, world, rnd)
             ELSE headPass(st, alivePlayers, i, j + 1, world, rnd)

\* stepRoom(room) with the draws rnd of Math.random(); besides the new
\* players, foods and bonusFood and the returned dead list, the result keeps
\* what the step went through: the worms after the movement loop (moved),
\* after the plain food loop (ate), after the two eating loops (fed), after
\* the body pass (checked), and the plain food before the eating loop with
\* the points eaten
stepRoom(room, rnd) ==
    LET world == room.config.world
        moved == movePlayers(room.gameState.activePlayers, world)
        plain == eatFood([foods |-> room.gameState.foods, ps |-> moved, eaten |-> <<>>],
                         Len(room.gameState.foods), world, rnd)
        bonus == eatBonusFood([foods |-> room.gameState.bonusFood, ps |-> plain.ps,
                               eaten |-> <<>>],
                              Len(room.gameState.bonusFood), world, rnd)
        grid == buildGrid(SpatialGrid(world.width, world.height, CELL_SIZE), bonus.ps, 1)
        body == bodyPass([ps |-> bonus.ps, dead |-> <<>>, foods |-> plain.foods],
                         grid, 1, world, rnd)
        head == headPass(body, aliveIndices(body.ps), 1, 2, world, rnd)
    IN  [activePlayers |-> head.ps,
         foods |-> head.foods,
         bonusFood |-> bonus.foods,
         dead |-> head.dead,
         moved |-> moved,
         ate |-> plain.ps,
         fed |-> bonus.ps,
         checked |-> body.ps,
         foodsBefore |-> room.gameState.foods,
         foodsEaten |-> plain.foods,
         eaten |-> plain.eaten,
         bonusEaten |-> bonus.eaten]

-----------------------------------------------------------------------------
(* State *)

ConnIds == 1..MaxConns

Null == "null"

\* connection ids stand for the UUID strings; NoId is the empty string
NoId == 0

\* an absent optional field
Undefined == [undefined |-> TRUE]

\* the draws of seedFoodsForRoom for the i-th plain food point and the i-th
\* bonus food item: one outcome of the seeding, the same in every room
SeedDraw(i) ==
    CASE i = 1 -> [fx |-> 550, fy |-> 500]
      [] i = 2 -> [fx |-> 9995, fy |-> 2500]
      [] OTHER -> [fx |-> (i * 1237) % MAX_POINT, fy |-> 5000 + ((i * 611) % 5000)]

BonusSeedDraw(i) ==
    CASE i = 1 -> [bx |-> 500, by |-> 600, bt |-> 7000]
      [] OTHER -> [bx |-> (i * 1733) % MAX_POINT, by |-> 5000 + ((i * 977) % 5000),
                   bt |-> (i * 2900) % MAX_POINT]

\* Math.floor(n * 0.2)
bonusCount(n) == (n * 2) \div 10

seedFoodsForRoom(room, n) ==
    LET world == room.config.world
    IN  [room EXCEPT
            !.gameState.foods = [i \in 1..n |-> randomFood(world, SeedDraw(i))],
            !.gameState.bonusFood =
                [i \in 1..bonusCount(n) |-> generateBonusFoodForRoom(world, BonusSeedDraw(i))]]

\* the number of plain food points initializeRooms seeds a room with
seedCount(config) == IF config.type = "casual" THEN SeedCasual ELSE SeedTournament

\* the Room that initializeRooms builds for one configuration
initialRoom(config) ==
    LET room == [id |-> config.id,
                 config |-> config,
                 state |-> IF config.type = "casual" THEN "freeplay" ELSE "waiting",
                 readyPlayers |-> {},
                 gameState |-> [foods |-> <<>>, bonusFood |-> <<>>, activePlayers |-> <<>>],
                 lastBroadcastTime |-> 0,
                 timing |-> IF config.type = "tournament"
                            THEN [roundStartTime |-> 0, roundDuration |-> ROUND_DURATION]
                            ELSE Undefined,
                 tournament |-> IF config.type = "tournament"
                                THEN [topPlayers |-> <<>>, advancedPlayers |-> {}]
                                ELSE Undefined]
    IN  seedFoodsForRoom(room, seedCount(config))

initializeRooms == [r \in RoomIds |-> initialRoom(ROOM_CONFIGS[r])]

\* the closure of one connection before any message
newConnection == [status |-> "idle", me |-> Null, currentRoomId |-> Null,
                  isAdmin |-> FALSE, roomId |-> Null]

Init ==
    /\ rooms = initializeRooms
    /\ players = <<>>
    /\ conns = [c \in ConnIds |-> newConnection]
    /\ adminSockets = {}
    /\ socketToRoom = [c \in ConnIds |-> Null]
    /\ now = StartTime
    /\ sent = <<>>
    /\ ev = [kind |-> "start"]
    /\ ticks = 0
    /\ msgs = 0
    /\ running = [phase |-> "none"]

\* the server after a long game in deathmatch: the room's plain food is the
\* seeded points plus the points of the food bursts of the deaths so far,
\* FoodsSoFar points in all, and every worm has left since
InitFood ==
    /\ rooms = [initializeRooms EXCEPT !["deathmatch"].gameState.foods =
                    [i \in 1..FoodsSoFar |->
                        randomFood(ROOM_CONFIGS["deathmatch"].world, SeedDraw(i))]]
    /\ players = <<>>
    /\ conns = [c \in ConnIds |-> newConnection]
    /\ adminSockets = {}
    /\ socketToRoom = [c \in ConnIds |-> Null]
    /\ now = StartTime
    /\ sent = <<>>
    /\ ev = [kind |-> "start"]
    /\ ticks = 0
    /\ msgs = 0
    /\ running = [phase |-> "none"]

\* the PlayerState both spawn functions build; rnd.x, rnd.y, rnd.a are the
\* draws of the position and of the angle
newPlayer(world, id, name, color, rnd) ==
    [id |-> id, name |-> name, color |-> color,
     pos |-> [x |-> RandomTimes(rnd.x, world.width), y |-> RandomTimes(rnd.y, world.height)],
     angle |-> RandomTimes(rnd.a, 628),
     speed |-> 40,
     body |-> <<>>,
     score |-> START_SCORE,
     alive |-> TRUE,
     turn |-> 0,
     boosting |-> FALSE,
     thickness |-> START_THICKNESS]

spawnPlayerInRoom(room, id, name, color, rnd) ==
    [room EXCEPT !.gameState.activePlayers =
        MapSet(@, id, newPlayer(room.config.world, id, name, color, rnd))]

spawnPlayer(id, name, color, rnd) ==
    MapSet(players, id, newPlayer(WORLD, id, name, color, rnd))

\* the Map that holds the PlayerState the closure variable me refers to
holder(c) ==
    IF conns[c].me = "legacy" THEN players
    ELSE rooms[conns[c].me].gameState.activePlayers

\* the PlayerState me refers to (conns[c].me is not Null)
meOf(c) == holder(c)[IndexOf(holder(c), c)]

\* assign field values to the PlayerState me refers to
updateMe(c, p) ==
    IF conns[c].me = "legacy"
    THEN /\ players' = MapSet(players, c, p)
         /\ rooms' = rooms
    ELSE /\ rooms' = [rooms EXCEPT ![conns[c].me].gameState.activePlayers = MapSet(@, c, p)]
         /\ players' = players

-----------------------------------------------------------------------------
(* Connections and messages *)

\* wss.on("connection")
Connect(c) ==
    /\ conns[c].status = "idle"
    /\ \A d \in DOMAIN conns : d < c => conns[d].status # "idle"
    /\ conns' = [conns EXCEPT ![c].status = "open"]
    /\ sent' = <<>>
    /\ ev' = [kind |-> "connection", conn |-> c]
    /\ UNCHANGED <<rooms, players, adminSockets, socketToRoom, now>>

\* ws.on("message"), msg.type === "hello"; an absent roomId, mode,
\* adminToken, name or color is the empty string
Hello(c, roomId, mode, adminToken, name, color, rnd) ==
    /\ conns[c].status = "open"
    /\ LET requestedRoomId == IF roomId = "" THEN "chill" ELSE roomId
           granted == adminToken # "" /\ adminToken = ADMIN_TOKEN
           found == requestedRoomId \in DOMAIN rooms
           m == IF mode = "" THEN "playing" ELSE mode
           pname == IF name = "" THEN "Player" ELSE name
           pcolor == IF color = "" THEN "#22cc88" ELSE color
           welcome ==
               IF found
               THEN [to |-> c, type |-> "welcome",
                     selfId |-> IF m = "playing" THEN c ELSE NoId,
                     world |-> rooms[requestedRoomId].config.world]
               ELSE [to |-> c, type |-> "welcome", selfId |-> c, world |-> WORLD]
       IN  /\ conns' = [conns EXCEPT
                ![c].isAdmin = IF granted THEN TRUE ELSE @,
                ![c].currentRoomId = IF found THEN requestedRoomId ELSE @,
                ![c].roomId = IF found THEN requestedRoomId ELSE @,
                ![c].me = IF found
                          THEN (IF m = "playing" THEN requestedRoomId ELSE @)
                          ELSE "legacy"]
           /\ adminSockets' = IF granted THEN adminSockets \cup {c} ELSE adminSockets
           /\ socketToRoom' = IF found THEN [socketToRoom EXCEPT ![c] = requestedRoomId]
                              ELSE socketToRoom
           /\ rooms' = IF found /\ m = "playing"
                       THEN [rooms EXCEPT ![requestedRoomId] =
                                spawnPlayerInRoom(@, c, pname, pcolor, rnd)]
                       ELSE rooms
           /\ players' = IF found THEN players ELSE spawnPlayer(c, pname, pcolor, rnd)
           /\ sent' = (IF granted THEN <<[to |-> c, type |-> "adminGranted"]>> ELSE <<>>)
                        \o <<welcome>>
           /\ ev' = [kind |-> "hello", conn |-> c, roomId |-> roomId, mode |-> m,
                     adminToken |-> adminToken]
    /\ UNCHANGED now

\* ws.on("message"), msg.type === "turn"
Turn(c, dir) ==
    /\ conns[c].status = "open"
    /\ IF conns[c].me # Null /\ dir \in {-1, 0, 1}
       THEN updateMe(c, [meOf(c) EXCEPT !.turn = dir])
       ELSE UNCHANGED <<rooms, players>>
    /\ sent' = <<>>
    /\ ev' = [kind |-> "turn", conn |-> c, dir |-> dir]
    /\ UNCHANGED <<conns, adminSockets, socketToRoom, now>>

\* ws.on("message"), msg.type === "boost"
Boost(c, boosting) ==
    /\ conns[c].status = "open"
    /\ IF conns[c].me # Null
       THEN updateMe(c, [meOf(c) EXCEPT !.boosting = boosting])
       ELSE UNCHANGED <<rooms, players>>
    /\ sent' = <<>>
    /\ ev' = [kind |-> "boost", conn |-> c]
    /\ UNCHANGED <<conns, adminSockets, socketToRoom, now>>

\* ws.on("message"), msg.type === "boost" and the message has no boosting
\* field: the branch assigns undefined.  The model keeps in boosting what
\* the readers of the field take it for (p.boosting && ..., p.boosting ? ...):
\* undefined reads as false.
BoostNoField(c) ==
    /\ conns[c].status = "open"
    /\ IF conns[c].me # Null
       THEN updateMe(c, [meOf(c) EXCEPT !.boosting = FALSE])
       ELSE UNCHANGED <<rooms, players>>
    /\ sent' = <<>>
    /\ ev' = [kind |-> "boostNoField", conn |-> c]
    /\ UNCHANGED <<conns, adminSockets, socketToRoom, now>>

\* ws.on("message") for a message no branch acts on: one that JSON.parse
\* rejects, one of a type the handler does not know, a turn without dir
Ignored(c, why) ==
    /\ conns[c].status = "open"
    /\ sent' = <<>>
    /\ ev' = [kind |-> "ignored", conn |-> c, why |-> why]
    /\ UNCHANGED <<rooms, players, conns, adminSockets, socketToRoom, now>>

\* the world the respawn branch draws the new position in
respawnWorld(c) == rooms["chill"].config.world

\* a respawn handler without the test that the worm is dead
RespawnAnyWorm(c, rnd) ==
    /\ conns[c].status = "open"
    /\ IF conns[c].me # Null
       THEN LET world == respawnWorld(c)
            IN  updateMe(c, [meOf(c) EXCEPT
                    !.pos = [x |-> RandomTimes(rnd.x, world.width),
                             y |-> RandomTimes(rnd.y, world.height)],
                    !.angle = RandomTimes(rnd.a, 628),
                    !.body = <<>>,
                    !.score = 100,
                    !.alive = TRUE,
                    !.turn = 0,
                    !.boosting = FALSE,
                    !.thickness = 1400])
       ELSE UNCHANGED <<rooms, players>>
    /\ sent' = <<>>
    /\ ev' = [kind |-> "respawn", conn |-> c,
              applied |-> conns[c].me # Null /\ ~meOf(c).alive,
              in |-> conns[c].me]
    /\ UNCHANGED <<conns, adminSockets, socketToRoom, now>>

\* ws.on("message"), msg.type === "respawn"; rnd.x, rnd.y, rnd.a are the
\* draws of the position and of the angle
Respawn(c, rnd) ==
    /\ conns[c].status = "open"
    /\ IF conns[c].me # Null /\ ~meOf(c).alive
       THEN LET world == respawnWorld(c)
            IN  updateMe(c, [meOf(c) EXCEPT
                    !.pos = [x |-> RandomTimes(rnd.x, world.width),
                             y |-> RandomTimes(rnd.y, world.height)],
                    !.angle = RandomTimes(rnd.a, 628),
                    !.body = <<>>,
                    !.score = 100,
                    !.alive = TRUE,
                    !.turn = 0,
                    !.boosting = FALSE,
                    !.thickness = 1400])
       ELSE UNCHANGED <<rooms, players>>
    /\ sent' = <<>>
    /\ ev' = [kind |-> "respawn", conn |-> c,
              applied |-> conns[c].me # Null /\ ~meOf(c).alive,
              in |-> conns[c].me]
    /\ UNCHANGED <<conns, adminSockets, socketToRoom, now>>

\* ws.on("close")
Close(c) ==
    /\ conns[c].status = "open"
    /\ players' = IF conns[c].me # Null THEN MapDelete(players, c) ELSE players
    /\ rooms' = IF conns[c].currentRoomId # Null /\ conns[c].me # Null
                THEN [rooms EXCEPT ![conns[c].currentRoomId].gameState.activePlayers =
                        MapDelete(@, c)]
                ELSE rooms
    /\ socketToRoom' = IF conns[c].currentRoomId # Null
                       THEN [socketToRoom EXCEPT ![c] = Null]
                       ELSE socketToRoom
    /\ adminSockets' = IF conns[c].isAdmin THEN adminSockets \ {c} ELSE adminSockets
    /\ conns' = [conns EXCEPT ![c].status = "closed", ![c].me = Null]
    /\ sent' = <<>>
    /\ ev' = [kind |-> "close", conn |-> c]
    /\ UNCHANGED now

-----------------------------------------------------------------------------
(* Admin commands *)

\* a startTournament loop that leaves the winner record of a room as it is
RECURSIVE startRoomsKeepWinner(_, _, _, _)
startRoomsKeepWinner(rs, roomIds, k, t) ==
    IF k > Len(roomIds) THEN rs
    ELSE LET roomId == roomIds[k]
         IN  IF roomId \notin DOMAIN rs \/ rs[roomId].config.type # "tournament"
             THEN startRoomsKeepWinner(rs, roomIds, k + 1, t)
             ELSE startRoomsKeepWinner(
                    [rs EXCEPT ![roomId] =
                        [@ EXCEPT !.state = "active",
                                  !.timing = IF @ # Undefined
                                             THEN [@ EXCEPT !.roundStartTime = t] ELSE @]],
                    roomIds, k + 1, t)

\* a startTournament loop that does not look at the type of a room
RECURSIVE startRoomsAnyType(_, _, _, _)
startRoomsAnyType(rs, roomIds, k, t) ==
    IF k > Len(roomIds) THEN rs
    ELSE LET roomId == roomIds[k]
         IN  IF roomId \notin DOMAIN rs
             THEN startRoomsAnyType(rs, roomIds, k + 1, t)
             ELSE startRoomsAnyType(
                    [rs EXCEPT ![roomId] =
                        [@ EXCEPT !.state = "active",
                                  !.timing = IF @ # Undefined
                                             THEN [@ EXCEPT !.roundStartTime = t] ELSE @,
                                  !.tournament = IF @ # Undefined
                                                 THEN [topPlayers |-> <<>>,
                                                       advancedPlayers |-> {}]
                                                 ELSE @]],
                    roomIds, k + 1, t)

\* a startTournament loop that puts a room into countdown first
RECURSIVE startRoomsCountdown(_, _, _, _)
startRoomsCountdown(rs, roomIds, k, t) ==
    IF k > Len(roomIds) THEN rs
    ELSE LET roomId == roomIds[k]
         IN  IF roomId \notin DOMAIN rs \/ rs[roomId].config.type # "tournament"
             THEN startRoomsCountdown(rs, roomIds, k + 1, t)
             ELSE startRoomsCountdown(
                    [rs EXCEPT ![roomId] =
                        [@ EXCEPT !.state = "countdown",
                                  !.timing = IF @ # Undefined
                                             THEN [@ EXCEPT !.roundStartTime = t] ELSE @,
                                  !.tournament = IF @ # Undefined
                                                 THEN [topPlayers |-> <<>>,
                                                       advancedPlayers |-> {}]
                                                 ELSE @]],
                    roomIds, k + 1, t)

\* the loop of admin:startTournament over roomIds from index k on
RECURSIVE startRooms(_, _, _, _)
startRooms(rs, roomIds, k, t) ==
    IF k > Len(roomIds) THEN rs
    ELSE LET roomId == roomIds[k]
         IN  IF roomId \notin DOMAIN rs \/ rs[roomId].config.type # "tournament"
             THEN startRooms(rs, roomIds, k + 1, t)
             ELSE startRooms(
                    [rs EXCEPT ![roomId] =
                        [@ EXCEPT !.state = "active",
                                  !.timing = IF @ # Undefined
                                             THEN [@ EXCEPT !.roundStartTime = t] ELSE @,
                                  !.tournament = IF @ # Undefined
                                                 THEN [topPlayers |-> <<>>,
                                                       advancedPlayers |-> {}]
                                                 ELSE @]],
                    roomIds, k + 1, t)

\* a resetTournament loop that does not clear the winner record
resetRoomsKeepWinner(rs) ==
    [r \in DOMAIN rs |->
        IF rs[r].config.type # "tournament" THEN rs[r]
        ELSE [rs[r] EXCEPT !.state = "waiting",
                           !.readyPlayers = {},
                           !.timing = IF @ # Undefined
                                      THEN [@ EXCEPT !.roundStartTime = 0] ELSE @]]

\* the loop of admin:resetTournament over all rooms
resetRooms(rs) ==
    [r \in DOMAIN rs |->
        IF rs[r].config.type # "tournament" THEN rs[r]
        ELSE [rs[r] EXCEPT !.state = "waiting",
                           !.readyPlayers = {},
                           !.timing = IF @ # Undefined
                                      THEN [@ EXCEPT !.roundStartTime = 0] ELSE @,
                           !.tournament = IF @ # Undefined
                                          THEN [topPlayers |-> <<>>, advancedPlayers |-> {}]
                                          ELSE @]]

roomStatuses(rs) ==
    [r \in DOMAIN rs |->
        [id |-> rs[r].id,
         type |-> rs[r].config.type,
         state |-> rs[r].state,
         playerCount |-> Len(rs[r].gameState.activePlayers),
         maxPlayers |-> rs[r].config.maxPlayers]]

\* an admin:endRound that leaves the room for its loop to finish
endRoundAtNextTick(rs, roomId) == rs

\* what admin:endRound does to a valid room
endRound(rs, roomId) == [rs EXCEPT ![roomId].state = "finished"]

\* a handleAdminCommand that lets every connection through
adminAllowedForAll(isAdmin) == TRUE

\* whether handleAdminCommand goes past its first test
adminAllowed(isAdmin) == isAdmin

\* handleAdminCommand(ws, msg, isAdmin) at time t: the rooms after it and
\* the messages it sends on ws
handleAdminCommand(c, msg, isAdmin, t) ==
    IF ~adminAllowed(isAdmin)
    THEN [rooms |-> rooms,
          sent |-> <<[to |-> c, type |-> "error",
                      message |-> "Unauthorized: Admin access required"]>>]
    ELSE IF msg.type = "admin:startTournament"
    THEN LET roomIds == IF "roomIds" \in DOMAIN msg THEN msg.roomIds
                        ELSE <<"arena1", "arena2", "arena3">>
         IN  [rooms |-> startRooms(rooms, roomIds, 1, t),
              sent |-> <<[to |-> c, type |-> "adminSuccess", count |-> Len(roomIds)]>>]
    ELSE IF msg.type = "admin:endRound"
    THEN LET roomId == IF "roomId" \in DOMAIN msg THEN msg.roomId ELSE ""
         IN  IF roomId \notin DOMAIN rooms \/ rooms[roomId].config.type # "tournament"
             THEN [rooms |-> rooms,
                   sent |-> <<[to |-> c, type |-> "error", message |-> "Invalid room"]>>]
             ELSE [rooms |-> endRound(rooms, roomId),
                   sent |-> <<[to |-> c, type |-> "adminSuccess", room |-> roomId]>>]
    ELSE IF msg.type = "admin:resetTournament"
    THEN [rooms |-> resetRooms(rooms),
          sent |-> <<[to |-> c, type |-> "adminSuccess", message |-> "Tournament reset"]>>]
    ELSE IF msg.type = "admin:getRoomStatus"
    THEN [rooms |-> rooms,
          sent |-> <<[to |-> c, type |-> "roomStatus", rooms |-> roomStatuses(rooms)]>>]
    ELSE [rooms |-> rooms, sent |-> <<>>]

\* ws.on("message"), msg.type.startsWith("admin:")
Admin(c, msg) ==
    /\ conns[c].status = "open"
    /\ LET done == handleAdminCommand(c, msg, conns[c].isAdmin, now)
       IN  /\ rooms' = done.rooms
           /\ sent' = done.sent
    /\ ev' = [kind |-> "admin", conn |-> c, msg |-> msg, isAdmin |-> conns[c].isAdmin,
              before |-> [r \in DOMAIN rooms |->
                            [state |-> rooms[r].state, tournament |-> rooms[r].tournament]]]
    /\ UNCHANGED <<players, conns, adminSockets, socketToRoom, now>>

-----------------------------------------------------------------------------
(* The room loop *)

toView(p) ==
    [id |-> p.id, name |-> p.name, color |-> p.color,
     head |-> [pos |-> p.pos, angle |-> p.angle],
     body |-> p.body,
     score |-> p.score,
     alive |-> p.alive,
     boosting |-> IF p.boosting THEN <<TRUE>> ELSE <<>>,
     thickness |-> IF p.thickness # 1400 THEN <<p.thickness>> ELSE <<>>]

\* players.reduce((top, p) => p.score > top.score ? p : top) from index k on
RECURSIVE topScorer(_, _, _)
topScorer(ps, top, k) ==
    IF k > Len(ps) THEN top
    ELSE topScorer(ps, IF ps[k].score > top.score THEN ps[k] ELSE top, k + 1)

\* a throttle that does not look at the dead list
shouldBroadcastThrottleOnly(dead, t, lastBroadcastTime) ==
    (t - lastBroadcastTime) * STATE_HZ >= 1000

\* whether the callback goes past "if (!shouldBroadcast) return"
shouldBroadcast(dead, t, lastBroadcastTime) ==
    Len(dead) > 0 \/ (t - lastBroadcastTime) * STATE_HZ >= 1000

\* the setInterval callback of startRoomGameLoop for room at time t, where
\* res is what its call of stepRoom(room) returned: the room after it, the
\* snapshot it broadcasts (<<>> when it returns early) and res.  An optional
\* field of the snapshot is a sequence of length 0 or 1.
roomLoop(room, t, res) ==
    LET stepped == [room EXCEPT !.gameState =
                        [foods |-> res.foods, bonusFood |-> res.bonusFood,
                         activePlayers |-> res.activePlayers]]
        timed == room.config.type = "tournament" /\ room.state = "active"
                    /\ room.timing # Undefined
        elapsed == t - room.timing.roundStartTime
        remaining == Max(0, room.timing.roundDuration - elapsed)
        expired == timed /\ remaining <= 0
        ps == res.activePlayers
        winner == topScorer(ps, ps[1], 2)
        ended == IF ~expired THEN stepped
                 ELSE [stepped EXCEPT
                        !.state = "finished",
                        !.tournament =
                            IF Len(ps) > 0
                            THEN [topPlayers |-> <<[id |-> winner.id, name |-> winner.name,
                                                    score |-> winner.score]>>,
                                  advancedPlayers |-> {}]
                            ELSE @]
        final == [ended EXCEPT !.lastBroadcastTime = t]
        overlay == final.state = "finished" /\ final.tournament # Undefined
                    /\ Len(final.tournament.topPlayers) > 0
        snap == [t |-> t,
                 world |-> room.config.world,
                 players |-> [i \in 1..Len(ps) |-> toView(ps[i])],
                 foods |-> res.foods,
                 bonusFood |-> IF Len(res.bonusFood) > 0 THEN <<res.bonusFood>> ELSE <<>>,
                 dead |-> IF Len(res.dead) > 0 THEN <<res.dead>> ELSE <<>>,
                 tournamentTimer |->
                    IF timed
                    THEN <<[state |-> room.state,
                            remaining |-> remaining \div 1000,
                            duration |-> room.timing.roundDuration \div 1000]>>
                    ELSE <<>>,
                 tournamentWinner |->
                    IF overlay
                    THEN <<[name |-> final.tournament.topPlayers[1].name,
                            score |-> final.tournament.topPlayers[1].score]>>
                    ELSE <<>>]
    IN  IF shouldBroadcast(res.dead, t, room.lastBroadcastTime)
        THEN [room |-> final, snapshot |-> <<snap>>, res |-> res]
        ELSE [room |-> stepped, snapshot |-> <<>>, res |-> res]

\* a fan-out that sends to every open client, whatever its room
recipientsAnyRoom(r) ==
    LET Open(c) == conns[c].status = "open"
    IN  SelectSeq([c \in DOMAIN conns |-> c], Open)

\* the clients of wss.clients a snapshot of room r is sent to, in id order
recipients(r) ==
    LET Bound(c) == conns[c].status = "open" /\ conns[c].roomId = r
    IN  SelectSeq([c \in DOMAIN conns |-> c], Bound)

\* one firing of the interval timer of room r, with the draws rnd
Tick(r, rnd) ==
    /\ \E res \in {stepRoom(rooms[r], rnd)} :
       \E done \in {roomLoop(rooms[r], now, res)} :
       LET to == recipients(r)
       IN  /\ rooms' = [rooms EXCEPT ![r] = done.room]
           /\ sent' = IF done.snapshot = <<>> THEN <<>>
                      ELSE [k \in 1..Len(to) |->
                                [to |-> to[k], type |-> "state", snapshot |-> done.snapshot[1]]]
           /\ ev' = [kind |-> "tick", room |-> r, now |-> now,
                     before |-> rooms[r], broadcast |-> done.snapshot # <<>>,
                     snapshot |-> done.snapshot, res |-> done.res]
    /\ UNCHANGED <<players, conns, adminSockets, socketToRoom, now>>

\* The interval callback of room r run in four steps, each from the state it
\* finds: the movement loop, the two eating loops, the two collision passes,
\* and the part of the callback after stepRoom.  Date.now() is read before
\* stepRoom.

\* a call stack that any callback may enter at any time
callStackAlwaysFree == TRUE

\* node runs one callback at a time: the event loop takes the next timer or
\* message callback only when the call stack is empty, and neither the
\* interval callback nor the message and close handlers ever yield
callStackEmpty == running.phase = "none"

TickMove(r) ==
    /\ rooms' = [rooms EXCEPT ![r].gameState.activePlayers =
                    movePlayers(@, rooms[r].config.world)]
    /\ running' = [phase |-> "moved", room |-> r, now |-> now, before |-> rooms[r]]
    /\ sent' = <<>>
    /\ ev' = [kind |-> "stepRoom", room |-> r]
    /\ UNCHANGED <<players, conns, adminSockets, socketToRoom, now, ticks, msgs>>

TickEat(rnd) ==
    /\ running.phase = "moved"
    /\ LET room == rooms[running.room]
           world == room.config.world
           plain == eatFood([foods |-> room.gameState.foods,
                             ps |-> room.gameState.activePlayers, eaten |-> <<>>],
                            Len(room.gameState.foods), world, rnd)
           bonus == eatBonusFood([foods |-> room.gameState.bonusFood, ps |-> plain.ps,
                                  eaten |-> <<>>],
                                 Len(room.gameState.bonusFood), world, rnd)
       IN  rooms' = [rooms EXCEPT ![running.room].gameState =
                        [foods |-> plain.foods, bonusFood |-> bonus.foods,
                         activePlayers |-> bonus.ps]]
    /\ running' = [running EXCEPT !.phase = "fed"]
    /\ sent' = <<>>
    /\ ev' = [kind |-> "stepRoom", room |-> running.room]
    /\ UNCHANGED <<players, conns, adminSockets, socketToRoom, now, ticks, msgs>>

TickCollide(rnd) ==
    /\ running.phase = "fed"
    /\ LET room == rooms[running.room]
           world == room.config.world
           ps == room.gameState.activePlayers
           grid == buildGrid(SpatialGrid(world.width, world.height, CELL_SIZE), ps, 1)
           body == bodyPass([ps |-> ps, dead |-> <<>>, foods |-> room.gameState.foods],
                            grid, 1, world, rnd)
           head == headPass(body, aliveIndices(body.ps), 1, 2, world, rnd)
       IN  /\ rooms' = [rooms EXCEPT ![running.room].gameState =
                            [foods |-> head.foods, bonusFood |-> room.gameState.bonusFood,
                             activePlayers |-> head.ps]]
           /\ running' = [phase |-> "stepped", room |-> running.room, now |-> running.now,
                          before |-> running.before, dead |-> head.dead]
    /\ sent' = <<>>
    /\ ev' = [kind |-> "stepRoom", room |-> running.room]
    /\ UNCHANGED <<players, conns, adminSockets, socketToRoom, now, ticks, msgs>>

TickBroadcast ==
    /\ running.phase = "stepped"
    /\ LET r == running.room
           res == [activePlayers |-> rooms[r].gameState.activePlayers,
                   foods |-> rooms[r].gameState.foods,
                   bonusFood |-> rooms[r].gameState.bonusFood,
                   dead |-> running.dead]
           done == roomLoop(rooms[r], running.now, res)
           to == recipients(r)
       IN  /\ rooms' = [rooms EXCEPT ![r] = done.room]
           /\ sent' = IF done.snapshot = <<>> THEN <<>>
                      ELSE [k \in 1..Len(to) |->
                                [to |-> to[k], type |-> "state", snapshot |-> done.snapshot[1]]]
           /\ ev' = [kind |-> "tick", room |-> r, now |-> running.now,
                     before |-> running.before, broadcast |-> done.snapshot # <<>>,
                     snapshot |-> done.snapshot, res |-> res]
    /\ running' = [phase |-> "none"]
    /\ ticks' = ticks + 1
    /\ UNCHANGED <<players, conns, adminSockets, socketToRoom, now, msgs>>

\* time passes until the instant t
Advance(t) ==
    /\ t > now
    /\ now' = t
    /\ sent' = <<>>
    /\ ev' = [kind |-> "time"]
    /\ UNCHANGED <<rooms, players, conns, adminSockets, socketToRoom>>

-----------------------------------------------------------------------------
(* Inputs *)

\* draws of a spawn or respawn: the point and the angle
SpawnDraws ==
    { [x |-> 500, y |-> 500, a |-> 0],
      [x |-> 525, y |-> 500, a |-> 0],
      [x |-> 5, y |-> 2500, a |-> 2500] }

RespawnDraws ==
    { [x |-> 500, y |-> 500, a |-> 0],
      [x |-> 9600, y |-> 9600, a |-> 5000] }

\* draws of one tick: a respawned food point, a respawned bonus item, the
\* jitter and the radius of a food burst
TickDraw == [fx |-> 7000, fy |-> 7000, bx |-> 8000, by |-> 8000, bt |-> 200,
             jx |-> 0, jy |-> 5000, rr |-> 0]

FirstDraw == [x |-> 500, y |-> 500, a |-> 0]

GameConns == 1..MaxConns

JoinConns == 1..2
JoinRoomIds == {"arena1", "", "lobby"}
JoinModes == {"", "spectating"}
JoinTickRooms == {"arena1", "chill"}

AdminConns == 1..2
CasualConns == 1..2

\* spawn draws that put a worm of deathmatch next to the plain food point
\* at (999.5, 150), heading along +x, away from any bonus item
BoostDraws ==
    { [x |-> 9900, y |-> 2500, a |-> 0],
      [x |-> 9925, y |-> 2500, a |-> 0] }
BoostConns == 1..2
FoodConns == 1..2
LoopConns == 1..2
MsgConns == 1..2
MsgDirs == {-1, 0, 1, 2}
IgnoredMessages == {"unparseable", "unknown type", "turn without dir"}

\* the spawn draw of connection c: three worms on one line of deathmatch,
\* heading along +x, the second just ahead of the first, the third further on
FeedSpawnDraw(c) ==
    CASE c = 1 -> [x |-> 500, y |-> 500, a |-> 0]
      [] c = 2 -> [x |-> 525, y |-> 500, a |-> 0]
      [] OTHER -> [x |-> 625, y |-> 500, a |-> 0]

\* a respawn draw whose point, taken in the chill world, is beyond the
\* world of deathmatch
FeedRespawnDraw == [x |-> 9600, y |-> 9600, a |-> 5000]

\* the draws of tick number k: the respawned food point behind the first
\* spawn point and the respawned bonus item ahead of it, a zillow on even
\* ticks and a jira on odd ones
FeedDraw(k) ==
    [fx |-> 400, fy |-> 500, bx |-> 700, by |-> 500,
     bt |-> IF k % 2 = 0 THEN 200 ELSE 2000,
     jx |-> 0, jy |-> 5000, rr |-> 0]
FeedConns == 1..3
AdminTokens == {"", "josie", "guess"}
AdminCommands ==
    { [type |-> "admin:startTournament"],
      [type |-> "admin:startTournament", roomIds |-> <<"arena1", "chill", "lobby">>],
      [type |-> "admin:endRound", roomId |-> "arena1"],
      [type |-> "admin:endRound", roomId |-> "chill"],
      [type |-> "admin:endRound", roomId |-> "lobby"],
      [type |-> "admin:resetTournament"],
      [type |-> "admin:getRoomStatus"],
      [type |-> "admin:shutdown"] }
Instants == {StartTime + 599980, StartTime + 600000}

-----------------------------------------------------------------------------
(* Specifications *)

\* a message or a close is handled
Handled == msgs' = msgs + 1 /\ ticks' = ticks /\ running' = running

\* a room loop fires
Ticked == ticks' = ticks + 1 /\ msgs' = msgs /\ running' = running

\* neither
Idle == UNCHANGED <<ticks, msgs, running>>

\* the game in one room: joining, steering, the simulation step, respawn
Next ==
    \/ \E c \in GameConns : Connect(c) /\ Idle
    \/ \E c \in GameConns, rnd \in SpawnDraws :
            msgs < MaxMsgs /\ Hello(c, "deathmatch", "playing", "", "ann", "", rnd) /\ Handled
    \/ \E c \in GameConns : msgs < MaxMsgs /\ Turn(c, 1) /\ Handled
    \/ \E c \in GameConns : msgs < MaxMsgs /\ Boost(c, TRUE) /\ Handled
    \/ \E c \in GameConns, rnd \in RespawnDraws :
            msgs < MaxMsgs /\ Respawn(c, rnd) /\ Handled
    \/ ticks < MaxTicks /\ Tick("deathmatch", TickDraw) /\ Ticked

Spec == Init /\ [][Next]_vars

\* sessions: which room a connection is bound to and where its worm lives
NextJoin ==
    \/ \E c \in JoinConns : Connect(c) /\ Idle
    \/ \E c \in JoinConns, roomId \in JoinRoomIds, mode \in JoinModes :
            msgs < JoinMsgs /\ Hello(c, roomId, mode, "", "", "", FirstDraw) /\ Handled
    \/ \E c \in JoinConns : msgs < JoinMsgs /\ Turn(c, 1) /\ Handled
    \/ \E c \in JoinConns : msgs < JoinMsgs /\ Close(c) /\ Handled
    \/ \E r \in JoinTickRooms : ticks < JoinTicks /\ Tick(r, TickDraw) /\ Ticked

SpecJoin == Init /\ [][NextJoin]_vars

\* the tournament: admin commands, the round timer, the room loop
NextAdmin ==
    \/ \E c \in AdminConns : Connect(c) /\ Idle
    \/ \E c \in AdminConns, token \in AdminTokens :
            msgs < AdminMsgs /\ Hello(c, "arena1", "", token, "", "", FirstDraw) /\ Handled
    \/ \E c \in AdminConns, msg \in AdminCommands :
            msgs < AdminMsgs /\ Admin(c, msg) /\ Handled
    \/ \E c \in AdminConns : msgs < AdminMsgs /\ Close(c) /\ Handled
    \/ ticks < AdminTicks /\ Tick("arena1", TickDraw) /\ Ticked
    \/ \E t \in Instants : Advance(t) /\ Idle

SpecAdmin == Init /\ [][NextAdmin]_vars

\* the casual room: joining chill, admin commands, chill's loop, time
NextCasual ==
    \/ \E c \in CasualConns : Connect(c) /\ Idle
    \/ \E c \in CasualConns, token \in AdminTokens :
            msgs < CasualMsgs /\ Hello(c, "", "", token, "", "", FirstDraw) /\ Handled
    \/ \E c \in CasualConns, msg \in AdminCommands :
            msgs < CasualMsgs /\ Admin(c, msg) /\ Handled
    \/ ticks < CasualTicks /\ Tick("chill", TickDraw) /\ Ticked
    \/ \E t \in Instants : Advance(t) /\ Idle

SpecCasual == Init /\ [][NextCasual]_vars

\* the boost economy: worms that eat, boost, die and respawn in deathmatch
NextBoost ==
    \/ \E c \in BoostConns : Connect(c) /\ Idle
    \/ \E c \in BoostConns, rnd \in BoostDraws :
            msgs < BoostMsgs /\ Hello(c, "deathmatch", "playing", "", "ann", "", rnd) /\ Handled
    \/ \E c \in BoostConns, boosting \in BOOLEAN :
            msgs < BoostMsgs /\ Boost(c, boosting) /\ Handled
    \/ \E c \in BoostConns, rnd \in RespawnDraws :
            msgs < BoostMsgs /\ Respawn(c, rnd) /\ Handled
    \/ ticks < BoostTicks /\ Tick("deathmatch", TickDraw) /\ Ticked

SpecBoost == Init /\ [][NextBoost]_vars

\* plain food late in a game: worms join deathmatch, die and respawn while
\* the room holds the food of many earlier bursts
NextFood ==
    \/ \E c \in FoodConns : Connect(c) /\ Idle
    \/ \E c \in FoodConns, rnd \in SpawnDraws :
            msgs < FoodMsgs /\ Hello(c, "deathmatch", "playing", "", "ann", "", rnd) /\ Handled
    \/ \E c \in FoodConns, rnd \in RespawnDraws :
            msgs < FoodMsgs /\ Respawn(c, rnd) /\ Handled
    \/ ticks < FoodTicks /\ Tick("deathmatch", TickDraw) /\ Ticked

SpecFood == InitFood /\ [][NextFood]_vars

\* the event loop: the interval callback of deathmatch in its steps, and
\* the message and close handlers, each entered when the call stack is empty
NextLoop ==
    \/ \E c \in LoopConns : callStackEmpty /\ Connect(c) /\ Idle
    \/ \E c \in LoopConns, rnd \in SpawnDraws :
            /\ callStackEmpty
            /\ msgs < LoopMsgs
            /\ Hello(c, "deathmatch", "playing", "", "ann", "", rnd)
            /\ Handled
    \/ \E c \in LoopConns : callStackEmpty /\ msgs < LoopMsgs /\ Turn(c, 1) /\ Handled
    \/ \E c \in LoopConns : callStackEmpty /\ msgs < LoopMsgs /\ Boost(c, TRUE) /\ Handled
    \/ \E c \in LoopConns : callStackEmpty /\ msgs < LoopMsgs /\ Respawn(c, FirstDraw) /\ Handled
    \/ \E c \in LoopConns : callStackEmpty /\ msgs < LoopMsgs /\ Close(c) /\ Handled
    \/ callStackEmpty /\ ticks < LoopTicks /\ TickMove("deathmatch")
    \/ TickEat(TickDraw)
    \/ TickCollide(TickDraw)
    \/ TickBroadcast

SpecLoop == Init /\ [][NextLoop]_vars

\* messages, well formed or not, before and after hello
NextMsg ==
    \/ \E c \in MsgConns : Connect(c) /\ Idle
    \/ \E c \in MsgConns :
            msgs < MsgMsgs /\ Hello(c, "deathmatch", "playing", "", "ann", "", FirstDraw) /\ Handled
    \/ \E c \in MsgConns, dir \in MsgDirs : msgs < MsgMsgs /\ Turn(c, dir) /\ Handled
    \/ \E c \in MsgConns, boosting \in BOOLEAN :
            msgs < MsgMsgs /\ Boost(c, boosting) /\ Handled
    \/ \E c \in MsgConns : msgs < MsgMsgs /\ BoostNoField(c) /\ Handled
    \/ \E c \in MsgConns : msgs < MsgMsgs /\ Respawn(c, FirstDraw) /\ Handled
    \/ \E c \in MsgConns, why \in IgnoredMessages :
            msgs < MsgMsgs /\ Ignored(c, why) /\ Handled
    \/ ticks < MsgTicks /\ Tick("deathmatch", TickDraw) /\ Ticked

SpecMsg == Init /\ [][NextMsg]_vars

\* eating and dying: worms that join deathmatch once, eat plain and bonus
\* food, die, and respawn when dead
NextFeed ==
    \/ \E c \in FeedConns : Connect(c) /\ Idle
    \/ \E c \in FeedConns :
            /\ msgs < FeedMsgs
            /\ conns[c].me = Null
            /\ Hello(c, "deathmatch", "playing", "", "ann", "", FeedSpawnDraw(c))
            /\ Handled
    \/ \E c \in FeedConns :
            /\ msgs < FeedMsgs
            /\ conns[c].me # Null
            /\ ~meOf(c).alive
            /\ Respawn(c, FeedRespawnDraw)
            /\ Handled
    \/ ticks < FeedTicks /\ Tick("deathmatch", FeedDraw(ticks)) /\ Ticked

SpecFeed == Init /\ [][NextFeed]_vars

-----------------------------------------------------------------------------
(* Properties of the simulation step (Spec) *)

\* the worms of the room the last tick stepped, as the tick left them
steppedPlayers == rooms[ev.room].gameState.activePlayers

\* number of points one food burst of worm p adds
burstSize(p) == Min(Len(p.body), 150) \div 3 + Min(p.score \div 80, 25)

\* worm k of the last step is a living worm all through the body pass: alive
\* when the pass starts and alive when it ends
livesThrough(k) == ev.res.fed[k].alive /\ ev.res.checked[k].alive

\* worm i of the last step has, when the body pass starts, its head within
\* HEAD_R2 of one of its own segments of index >= 6
touchesOwnBody(i) ==
    LET p == ev.res.fed[i]
    IN  \E n \in 1..Len(p.body) : n - 1 >= HINGE /\ dist2(p.pos, p.body[n]) < HEAD_R2

\* worm i of the last step has, when the body pass starts, its head within
\* HEAD_R2 of a segment of another worm that lives all through the pass
touchesOtherBody(i) ==
    \E k \in 1..Len(ev.res.fed) : \E n \in 1..Len(ev.res.fed[k].body) :
        /\ k # i
        /\ livesThrough(k)
        /\ dist2(ev.res.fed[i].pos, ev.res.fed[k].body[n]) < HEAD_R2

\* C1: head-to-head.  If after the movement step of a stepRoom call two
\* living worms of the room have heads closer than HEAD_R2, then at the end
\* of the call both are dead, both ids are in the returned dead list and a
\* food burst has been added to the room's food for each of them.
C1_HeadToHeadBothDie ==
    ev.kind = "tick" =>
        \A i, j \in 1..Len(ev.res.moved) :
            ( /\ i < j
              /\ ev.res.moved[i].alive
              /\ ev.res.moved[j].alive
              /\ dist2(ev.res.moved[i].pos, ev.res.moved[j].pos) < HEAD_R2 )
            => /\ ~steppedPlayers[i].alive
               /\ ~steppedPlayers[j].alive
               /\ \E m, n \in 1..Len(ev.res.dead) :
                    /\ ev.res.dead[m] = ev.res.moved[i].id
                    /\ ev.res.dead[n] = ev.res.moved[j].id
               /\ Len(ev.res.foods) >=
                    Len(ev.res.foodsEaten) + burstSize(ev.res.fed[i]) + burstSize(ev.res.fed[j])

\* C2: the body-collision pass checks every living worm.  Each worm that is
\* alive when the pass starts and whose head is within HEAD_R2 of a body
\* segment of a living worm (its own segments below index 6 excepted) is
\* dead and in the returned dead list at the end of the call, however many
\* worms died earlier in the pass.
C2_BodyPassChecksEveryWorm ==
    ev.kind = "tick" =>
        \A i \in 1..Len(ev.res.fed) :
            (ev.res.fed[i].alive /\ (touchesOwnBody(i) \/ touchesOtherBody(i)))
            => /\ ~steppedPlayers[i].alive
               /\ \E m \in 1..Len(ev.res.dead) : ev.res.dead[m] = ev.res.fed[i].id

\* C3: the self-collision hinge.  In the body-collision pass a worm is not
\* killed by its own segments 0..5 alone; it is killed by an own segment of
\* index >= 6 within HEAD_R2 of its head; and it is killed by a segment of
\* any other living worm, index 0 included, within HEAD_R2.
C3_SelfCollisionHinge ==
    ev.kind = "tick" =>
        \A i \in 1..Len(ev.res.fed) :
            ev.res.fed[i].alive =>
                /\ touchesOwnBody(i) => ~ev.res.checked[i].alive
                /\ touchesOtherBody(i) => ~ev.res.checked[i].alive
                /\ ~ev.res.checked[i].alive =>
                        \/ touchesOwnBody(i)
                        \/ \E k \in 1..Len(ev.res.fed) : \E n \in 1..Len(ev.res.fed[k].body) :
                                /\ k # i
                                /\ ev.res.fed[k].alive
                                /\ dist2(ev.res.fed[i].pos, ev.res.fed[k].body[n]) < HEAD_R2

\* C4: the proximity tests of the step use the toroidal squared distance.
\* A plain or bonus food point within FOOD_R2 of a living worm's head by
\* the per-axis shortest wrap-around delta is eaten in that step.
C4_ToroidalProximity ==
    ev.kind = "tick" =>
        LET world == ROOM_CONFIGS[ev.room].world
        IN  /\ \A f \in 1..Len(ev.res.foodsBefore) :
                (\E i \in 1..Len(ev.res.moved) :
                    /\ ev.res.moved[i].alive
                    /\ torusDistSq(ev.res.moved[i].pos, ev.res.foodsBefore[f], world) <= FOOD_R2)
                => \E e \in 1..Len(ev.res.eaten) : ev.res.eaten[e].food = ev.res.foodsBefore[f]
            /\ \A f \in 1..Len(ev.before.gameState.bonusFood) :
                (\E i \in 1..Len(ev.res.moved) :
                    /\ ev.res.moved[i].alive
                    /\ torusDistSq(ev.res.moved[i].pos, ev.before.gameState.bonusFood[f], world)
                            <= FOOD_R2)
                => \E e \in 1..Len(ev.res.bonusEaten) :
                        ev.res.bonusEaten[e].food = ev.before.gameState.bonusFood[f]

\* C5: the position invariant.  Every worm held in a room's activePlayers
\* map lies inside that room's own world: 0 <= x < width and 0 <= y < height.
C5_PositionInsideWorld ==
    \A r \in RoomIds :
        \A i \in 1..Len(rooms[r].gameState.activePlayers) :
            LET p == rooms[r].gameState.activePlayers[i]
                world == rooms[r].config.world
            IN  /\ 0 <= p.pos.x /\ p.pos.x < world.width
                /\ 0 <= p.pos.y /\ p.pos.y < world.height

-----------------------------------------------------------------------------
(* Properties of sessions (SpecJoin) *)

\* the rooms whose activePlayers map has a worm under the id of connection c
roomsHolding(c) == {r \in RoomIds : MapHas(rooms[r].gameState.activePlayers, c)}

\* C6: one worm per connection, in one room.  A connection's id is the key
\* of a worm in at most one room's activePlayers map, and that room is the
\* room the connection is bound to, whatever messages the connection sent.
C6_OneWormOneRoom ==
    \A c \in ConnIds :
        /\ Cardinality(roomsHolding(c)) <= 1
        /\ \A r \in roomsHolding(c) : conns[c].roomId = r

\* C7: disconnect cleanup.  Once a connection is closed no room's
\* activePlayers map holds a worm under its id.
C7_ClosedLeavesNoWorm ==
    \A c \in ConnIds : conns[c].status = "closed" => roomsHolding(c) = {}

\* C8: unknown room id on join.  A hello whose roomId is none of the five
\* rooms, or is absent, binds the connection to chill; in playing mode the
\* worm is in chill's player map; the welcome carries chill's world.
C8_UnknownRoomJoinsChill ==
    (ev.kind = "hello" /\ ev.roomId \notin RoomIds) =>
        /\ conns[ev.conn].roomId = "chill"
        /\ ev.mode = "playing" =>
                MapHas(rooms["chill"].gameState.activePlayers, ev.conn)
        /\ Len(sent) > 0
        /\ sent[Len(sent)].type = "welcome"
        /\ sent[Len(sent)].world = ROOM_CONFIGS["chill"].world

-----------------------------------------------------------------------------
(* Properties of the tournament (SpecAdmin) *)

\* what admin commands act on: every room's state, round timing, ready set
\* and winner record
adminView ==
    [r \in RoomIds |-> [state |-> rooms[r].state,
                        timing |-> rooms[r].timing,
                        readyPlayers |-> rooms[r].readyPlayers,
                        tournament |-> rooms[r].tournament]]

\* C9: admin authorization.  An admin:* message on a connection that has
\* not presented the correct adminToken in a hello is answered with an error
\* and leaves every room's state, timing, ready set and winner record as
\* they were; a message changes them only if it is an admin message of a
\* connection that authenticated, and a connection becomes admin only by a
\* hello carrying the admin token.
C9_AdminAuthorization ==
    [][ /\ (ev'.kind = "admin" /\ ~ev'.isAdmin) =>
                /\ adminView' = adminView
                /\ Len(sent') = 1
                /\ sent'[1].type = "error"
                /\ sent'[1].to = ev'.conn
        /\ (adminView' # adminView /\ ev'.kind # "tick") =>
                (ev'.kind = "admin" /\ ev'.isAdmin /\ conns[ev'.conn].isAdmin)
        /\ \A c \in ConnIds :
                (conns'[c].isAdmin /\ ~conns[c].isAdmin) =>
                    (ev'.kind = "hello" /\ ev'.conn = c /\ ev'.adminToken = ADMIN_TOKEN)
      ]_vars

\* reached: a connection that is not admin asks for a reset while arena1 is
\* in a round, and is answered with an error
C9_Witness ==
    /\ ev.kind = "admin"
    /\ ~ev.isAdmin
    /\ ev.msg.type = "admin:resetTournament"
    /\ rooms["arena1"].state = "active"
    /\ sent[1].type = "error"

\* C10: round expiry.  A tick of an active tournament room run at a time
\* now leaves the room active when now - roundStartTime < roundDuration, and
\* leaves it finished, with a winner record if the room has a worm, when
\* now - roundStartTime >= roundDuration.
C10_RoundExpiry ==
    (ev.kind = "tick" /\ ev.before.config.type = "tournament" /\ ev.before.state = "active") =>
        IF ev.now - ev.before.timing.roundStartTime < ev.before.timing.roundDuration
        THEN rooms[ev.room].state = "active"
        ELSE /\ rooms[ev.room].state = "finished"
             /\ Len(rooms[ev.room].gameState.activePlayers) > 0 =>
                    Len(rooms[ev.room].tournament.topPlayers) > 0


\* C11: winner selection.  The winner a tick records when the round expires
\* is a worm of the room that is alive after that tick's step, with the
\* recorded name and score, and no living worm of the room has a higher score.
C11_WinnerIsTopLivingWorm ==
    ( /\ ev.kind = "tick"
      /\ ev.before.config.type = "tournament"
      /\ ev.before.state = "active"
      /\ rooms[ev.room].state = "finished"
      /\ Len(rooms[ev.room].tournament.topPlayers) > 0 )
    => LET winner == rooms[ev.room].tournament.topPlayers[1]
       IN  \E i \in 1..Len(steppedPlayers) :
                /\ steppedPlayers[i].id = winner.id
                /\ steppedPlayers[i].alive
                /\ steppedPlayers[i].name = winner.name
                /\ steppedPlayers[i].score = winner.score
                /\ \A j \in 1..Len(steppedPlayers) :
                        steppedPlayers[j].alive => steppedPlayers[j].score <= winner.score

\* C12: winner overlay while finished.  Every snapshot broadcast by a tick
\* that leaves a tournament room in state finished, whether the round ended
\* by expiry or by admin:endRound, carries a tournamentWinner field.
C12_FinishedSnapshotHasWinner ==
    ( /\ ev.kind = "tick"
      /\ ev.before.config.type = "tournament"
      /\ rooms[ev.room].state = "finished"
      /\ ev.broadcast )
    => Len(ev.snapshot[1].tournamentWinner) = 1


\* the room ids an admin:startTournament message names
namedRooms(msg) ==
    LET roomIds == IF "roomIds" \in DOMAIN msg THEN msg.roomIds
                   ELSE <<"arena1", "arena2", "arena3">>
    IN  {roomIds[k] : k \in 1..Len(roomIds)}

\* C13: admin:startTournament.  Handled on a connection that is admin, it
\* leaves every named tournament room active with roundStartTime the current
\* time and an empty winner record, whatever the room's state was; every
\* other room (named but casual, or not named) keeps its state, timing and
\* winner record.
C13_StartTournament ==
    [][ (ev'.kind = "admin" /\ ev'.isAdmin /\ ev'.msg.type = "admin:startTournament") =>
            \A r \in RoomIds :
                IF r \in namedRooms(ev'.msg) /\ ROOM_CONFIGS[r].type = "tournament"
                THEN /\ rooms'[r].state = "active"
                     /\ rooms'[r].timing.roundStartTime = now'
                     /\ rooms'[r].timing.roundDuration = rooms[r].timing.roundDuration
                     /\ rooms'[r].tournament = [topPlayers |-> <<>>, advancedPlayers |-> {}]
                ELSE adminView'[r] = adminView[r]
      ]_vars

\* reached: arena1 finished a round with a winner recorded, and an admin
\* has just started it again in a message that also names chill and an
\* unknown room; the winner record is empty and chill is untouched
C13_Witness ==
    /\ ev.kind = "admin"
    /\ ev.isAdmin
    /\ ev.msg = [type |-> "admin:startTournament", roomIds |-> <<"arena1", "chill", "lobby">>]
    /\ ev.before["arena1"].state = "finished"
    /\ Len(ev.before["arena1"].tournament.topPlayers) > 0
    /\ rooms["arena1"].state = "active"
    /\ rooms["arena1"].timing.roundStartTime = StartTime + 600000
    /\ rooms["arena1"].lastBroadcastTime = StartTime + 600000
    /\ rooms["arena1"].tournament.topPlayers = <<>>
    /\ rooms["chill"].state = "freeplay"


\* C14: admin:endRound.  Handled on a connection that is admin, it puts the
\* named room in state finished in the handler itself when the room is a
\* tournament room, changing nothing else; when the id is unknown or names
\* the casual room it is answered with one error and no room changes.
C14_EndRound ==
    [][ (ev'.kind = "admin" /\ ev'.isAdmin /\ ev'.msg.type = "admin:endRound") =>
            LET roomId == IF "roomId" \in DOMAIN ev'.msg THEN ev'.msg.roomId ELSE ""
            IN  IF roomId \in RoomIds /\ ROOM_CONFIGS[roomId].type = "tournament"
                THEN /\ rooms'[roomId].state = "finished"
                     /\ rooms' = [rooms EXCEPT ![roomId].state = "finished"]
                     /\ Len(sent') = 1
                     /\ sent'[1].type = "adminSuccess"
                ELSE /\ rooms' = rooms
                     /\ Len(sent') = 1
                     /\ sent'[1].type = "error"
                     /\ sent'[1].to = ev'.conn
      ]_vars

\* reached: an admin has just ended the round of arena1 while its timer was
\* running, before any tick of the round
C14_Witness ==
    /\ ev.kind = "admin"
    /\ ev.isAdmin
    /\ ev.msg = [type |-> "admin:endRound", roomId |-> "arena1"]
    /\ ev.before["arena1"].state = "active"
    /\ rooms["arena1"].state = "finished"
    /\ rooms["arena1"].timing.roundStartTime = StartTime
    /\ rooms["arena1"].lastBroadcastTime = 0
    /\ sent[1].type = "adminSuccess"


\* C15: admin:resetTournament.  Handled on a connection that is admin, it
\* leaves every tournament room waiting with roundStartTime 0, an empty
\* winner record and an empty ready set, and leaves the casual room, every
\* room's worms and food and the legacy players as they were; and a snapshot
\* carries tournamentTimer or tournamentWinner only if the room has been
\* started since the last reset (its roundStartTime is not 0).
C15_ResetTournament ==
    [][ /\ (ev'.kind = "admin" /\ ev'.isAdmin /\ ev'.msg.type = "admin:resetTournament") =>
                /\ \A r \in RoomIds :
                        /\ rooms'[r].gameState = rooms[r].gameState
                        /\ IF ROOM_CONFIGS[r].type = "tournament"
                           THEN /\ rooms'[r].state = "waiting"
                                /\ rooms'[r].timing.roundStartTime = 0
                                /\ rooms'[r].tournament.topPlayers = <<>>
                                /\ rooms'[r].readyPlayers = {}
                           ELSE rooms'[r] = rooms[r]
                /\ players' = players
        /\ ( /\ ev'.kind = "tick"
              /\ ev'.broadcast
              /\ ev'.before.config.type = "tournament"
              /\ \/ Len(ev'.snapshot[1].tournamentTimer) > 0
                 \/ Len(ev'.snapshot[1].tournamentWinner) > 0 )
           => ev'.before.timing.roundStartTime # 0
      ]_vars

\* reached: arena1 ended a round by expiry with a winner recorded, and an
\* admin has just reset the tournament: arena1 is waiting, its timer and
\* winner record are cleared, its worm is still there
C15_Witness ==
    /\ ev.kind = "admin"
    /\ ev.isAdmin
    /\ ev.msg.type = "admin:resetTournament"
    /\ ev.before["arena1"].state = "finished"
    /\ Len(ev.before["arena1"].tournament.topPlayers) > 0
    /\ rooms["arena1"].state = "waiting"
    /\ rooms["arena1"].timing.roundStartTime = 0
    /\ rooms["arena1"].tournament.topPlayers = <<>>
    /\ Len(rooms["arena1"].gameState.activePlayers) > 0


-----------------------------------------------------------------------------
(* Properties of the casual room (SpecCasual) *)

\* C16: the casual room.  chill is in state freeplay in every reachable
\* state, with no timing and no winner record, and no snapshot of it
\* carries tournamentTimer or tournamentWinner.
C16_CasualAlwaysFreeplay ==
    /\ rooms["chill"].state = "freeplay"
    /\ rooms["chill"].timing = Undefined
    /\ rooms["chill"].tournament = Undefined
    /\ (ev.kind = "tick" /\ ev.room = "chill" /\ ev.broadcast) =>
            /\ ev.snapshot[1].tournamentTimer = <<>>
            /\ ev.snapshot[1].tournamentWinner = <<>>

\* reached: an admin started the tournament in a message naming arena1,
\* chill and an unknown room, ten minutes passed, and chill's loop has just
\* broadcast a snapshot with a worm in it
C16_Witness ==
    /\ ev.kind = "tick"
    /\ ev.room = "chill"
    /\ ev.broadcast
    /\ ev.now = StartTime + 600000
    /\ rooms["arena1"].state = "active"
    /\ rooms["arena1"].timing.roundStartTime = StartTime
    /\ rooms["arena2"].state = "waiting"
    /\ Len(ev.snapshot[1].players) > 0


-----------------------------------------------------------------------------
(* Properties of score and boost (SpecBoost) *)

\* every worm the server holds: the worms of every room and the legacy ones
allWorms ==
    UNION { {rooms[r].gameState.activePlayers[i] :
                i \in 1..Len(rooms[r].gameState.activePlayers)} : r \in DOMAIN rooms }
        \cup {players[i] : i \in 1..Len(players)}

\* C17: score floor.  In every reachable state every worm has score >= 10.
C17_ScoreFloor ==
    \A p \in allWorms : p.score >= START_SCORE

\* reached: a tick in which a boosting worm with score 10.5 paid for the
\* boost and is left with score exactly 10
C17_Witness ==
    /\ ev.kind = "tick"
    /\ \E i \in 1..Len(ev.before.gameState.activePlayers) :
            /\ ev.before.gameState.activePlayers[i].alive
            /\ ev.before.gameState.activePlayers[i].boosting
            /\ ev.before.gameState.activePlayers[i].score = START_SCORE + BOOST_COST_PER_TICK
            /\ steppedPlayers[i].score = START_SCORE

\* C18: boost economy per tick.  In the movement loop a living worm with
\* boosting set and score > 10 gets speed BASE_SPEED x 1.8 and loses 0.5
\* score; if that leaves score <= 10 the score is exactly 10 and boosting is
\* cleared, otherwise boosting stays set.  Any other living worm gets speed
\* BASE_SPEED, keeps its score and has boosting cleared.  A worm heading
\* along +x is displaced by that speed.
C18_BoostEconomy ==
    ev.kind = "tick" =>
        \A i \in 1..Len(ev.before.gameState.activePlayers) :
            LET p == ev.before.gameState.activePlayers[i]
                q == ev.res.moved[i]
                world == ev.before.config.world
            IN  p.alive =>
                    /\ IF p.boosting /\ p.score > START_SCORE
                       THEN /\ q.speed * 10 = BASE_SPEED * BOOST_MULTIPLIER
                            /\ IF p.score - BOOST_COST_PER_TICK <= START_SCORE
                               THEN q.score = START_SCORE /\ ~q.boosting
                               ELSE q.score = p.score - BOOST_COST_PER_TICK /\ q.boosting
                       ELSE /\ q.speed = BASE_SPEED
                            /\ q.score = p.score
                            /\ ~q.boosting
                    /\ (p.angle = 0 /\ p.turn = 0) =>
                            /\ q.pos.x = wrap(p.pos.x + q.speed, world.width)
                            /\ q.pos.y = p.pos.y

\* reached: the movement loop has just taken a boosting worm from score
\* 10.5 to the floor at boost speed and cleared its boosting
C18_Witness ==
    /\ ev.kind = "tick"
    /\ \E i \in 1..Len(ev.res.moved) :
            /\ ev.before.gameState.activePlayers[i].boosting
            /\ ev.before.gameState.activePlayers[i].score > START_SCORE
            /\ ev.res.moved[i].speed > BASE_SPEED
            /\ ev.res.moved[i].score = START_SCORE
            /\ ~ev.res.moved[i].boosting


-----------------------------------------------------------------------------
(* Properties of the body (Spec) *)

\* C19: body length.  After every tick, from a worm's first tick on, every
\* living worm's body has exactly clamp(floor(score x 0.8), 15, 300) segments,
\* for the score the movement loop left it with.
C19_BodyLength ==
    ev.kind = "tick" =>
        \A i \in 1..Len(steppedPlayers) :
            (i <= Len(ev.res.moved) /\ steppedPlayers[i].alive) =>
                Len(steppedPlayers[i].body) = calculateBodyLength(ev.res.moved[i].score)


-----------------------------------------------------------------------------
(* Properties of respawn (SpecBoost) *)

\* C20: respawn.  A respawn message changes state only when the connection
\* has a worm and that worm is dead; then the same entry of the same player
\* map (same id, name and color, every other entry untouched) gets score 10,
\* alive, an empty body, turn 0, boosting false, thickness 14 and a position
\* and heading drawn inside the chill world and the full turn.  A respawn
\* message for a living worm, or on a connection without a worm, changes
\* nothing.
C20_Respawn ==
    [][ev'.kind = "respawn" =>
        \E c \in ConnIds :
            /\ c = ev'.conn
            /\ conns' = conns
            /\ adminSockets' = adminSockets
            /\ socketToRoom' = socketToRoom
            /\ IF conns[c].me # Null /\ ~meOf(c).alive
               THEN \E k \in {IndexOf(holder(c), c)} :
                    \E after \in {IF conns[c].me = "legacy" THEN players'
                                   ELSE rooms'[conns[c].me].gameState.activePlayers} :
                        /\ Len(after) = Len(holder(c))
                        /\ \A j \in 1..Len(after) : j # k => after[j] = holder(c)[j]
                        /\ after[k] = [holder(c)[k] EXCEPT
                                            !.pos = after[k].pos,
                                            !.angle = after[k].angle,
                                            !.body = <<>>,
                                            !.score = START_SCORE,
                                            !.alive = TRUE,
                                            !.turn = 0,
                                            !.boosting = FALSE,
                                            !.thickness = START_THICKNESS]
                        /\ after[k].pos.x >= 0
                        /\ after[k].pos.x < rooms["chill"].config.world.width
                        /\ after[k].pos.y >= 0
                        /\ after[k].pos.y < rooms["chill"].config.world.height
                        /\ after[k].angle >= 0
                        /\ after[k].angle <= 628
                        /\ IF conns[c].me = "legacy"
                           THEN rooms' = rooms
                           ELSE /\ players' = players
                                /\ rooms' = [rooms EXCEPT
                                        ![conns[c].me].gameState.activePlayers = after]
               ELSE rooms' = rooms /\ players' = players]_vars

\* reached: a respawn message has just revived a dead worm of deathmatch
\* at a new position
C20_Witness ==
    /\ ev.kind = "respawn"
    /\ ev.applied
    /\ ev.in = "deathmatch"
    /\ meOf(ev.conn).alive
    /\ meOf(ev.conn).score = START_SCORE
    /\ meOf(ev.conn).body = <<>>
    /\ meOf(ev.conn).pos.x = 24000


-----------------------------------------------------------------------------
(* Properties of food *)

\* C21: plain food cap.  After every tick of a room the room holds at most
\* 400 plain food points (food bursts that push the count above 400 are
\* followed by a removal of the farthest points down to 350).
C21_PlainFoodCap ==
    ev.kind = "tick" => Len(rooms[ev.room].gameState.foods) <= MAX_FOOD


\* the worms of the last step that are alive after the movement loop with
\* their head within FOOD_R2 of the point f
reach(f) ==
    {i \in 1..Len(ev.res.moved) :
        ev.res.moved[i].alive /\ dist2(ev.res.moved[i].pos, f) <= FOOD_R2}

\* the first of them in the order of the player map, 0 when there is none
eaterOf(f) ==
    IF reach(f) = {} THEN 0
    ELSE CHOOSE i \in reach(f) : \A j \in reach(f) : i <= j

\* whether the point f is a point of the room's world
insideWorld(f, world) ==
    f.x >= 0 /\ f.x < world.width /\ f.y >= 0 /\ f.y < world.height

\* C22: plain food consumption.  In a stepRoom call each plain food point
\* within FOOD_R2 of one or more living heads is eaten by exactly one worm,
\* the first of them in the order of the player map, which gains exactly 1
\* score for it; the point is removed and one new point inside the room's
\* world is added, so the eating loop leaves the number of points as it
\* was, and every point out of reach of the living worms stays.  Dead worms
\* never eat.
C22_PlainFoodConsumption ==
    ev.kind = "tick" =>
        LET foodsBefore == ev.res.foodsBefore
            foodsAfter == ev.res.foodsEaten
            world == ev.before.config.world
            OutOfReach(f) == reach(f) = {}
            kept == SelectSeq(foodsBefore, OutOfReach)
        IN  /\ Len(foodsAfter) = Len(foodsBefore)
            /\ SubSeq(foodsAfter, 1, Len(kept)) = kept
            /\ \A k \in (Len(kept) + 1)..Len(foodsAfter) : insideWorld(foodsAfter[k], world)
            /\ \A i \in 1..Len(ev.res.moved) :
                    ev.res.ate[i].score = ev.res.moved[i].score
                        + 10 * Cardinality({k \in 1..Len(foodsBefore) :
                                                eaterOf(foodsBefore[k]) = i})

\* reached: a tick in which one point was in reach of two living worms and
\* only the first of them gained score from the plain food
C22_Witness ==
    /\ ev.kind = "tick"
    /\ \E k \in 1..Len(ev.res.foodsBefore) : \E i, j \in reach(ev.res.foodsBefore[k]) :
            /\ i < j
            /\ ev.res.ate[i].score = ev.res.moved[i].score + 10
            /\ ev.res.ate[j].score = ev.res.moved[j].score

\* the case of a dead worm next to food: in the last tick a point was in
\* reach of a dead worm and of no living one (SpecFeed reaches it)
deadWormNearFood ==
    /\ ev.kind = "tick"
    /\ \E k \in 1..Len(ev.res.foodsBefore) : \E i \in 1..Len(ev.res.moved) :
            /\ ~ev.res.moved[i].alive
            /\ dist2(ev.res.moved[i].pos, ev.res.foodsBefore[k]) <= FOOD_R2
            /\ reach(ev.res.foodsBefore[k]) = {}


\* the score worm i of the last step gains from the bonus items from index
\* k on: the value of every item whose first living worm in reach it is
RECURSIVE bonusGain(_, _, _)
bonusGain(items, k, i) ==
    IF k > Len(items) THEN 0
    ELSE (IF eaterOf(items[k]) = i THEN items[k].value ELSE 0) + bonusGain(items, k + 1, i)

\* C23: bonus food population.  In every reachable state a room holds
\* exactly floor(n x 0.2) bonus food items, n being its seed count (50 for
\* 250, 60 for 300), each worth the value of its kind (5, 10 or 30).  In a
\* stepRoom call an item in reach of living worms awards its value to
\* exactly one of them, the first in map order, and is replaced by one new
\* item; an item out of reach stays; deaths and food bursts of the same
\* call leave the list as the eating loop left it.
C23_BonusFoodPopulation ==
    /\ bonusCount(250) = 50
    /\ bonusCount(300) = 60
    /\ \A r \in RoomIds :
            /\ Len(rooms[r].gameState.bonusFood) = bonusCount(seedCount(rooms[r].config))
            /\ \A k \in 1..Len(rooms[r].gameState.bonusFood) :
                    LET f == rooms[r].gameState.bonusFood[k]
                    IN  /\ f.type \in DOMAIN FOOD_TYPES
                        /\ f.value = FOOD_TYPES[f.type].value
                        /\ f.value \in {50, 100, 300}
                        /\ insideWorld(f, rooms[r].config.world)
    /\ ev.kind = "tick" =>
            LET itemsBefore == ev.before.gameState.bonusFood
                itemsAfter == rooms[ev.room].gameState.bonusFood
                OutOfReach(f) == reach(f) = {}
                kept == SelectSeq(itemsBefore, OutOfReach)
            IN  /\ SubSeq(itemsAfter, 1, Len(kept)) = kept
                /\ \A i \in 1..Len(ev.res.moved) :
                        ev.res.fed[i].score = ev.res.ate[i].score + bonusGain(itemsBefore, 1, i)

\* reached: a tick in which a worm ate a zillow, worth 30, and a worm died
\* with a food burst, and the room still holds its bonus items
C23_Witness ==
    /\ ev.kind = "tick"
    /\ Len(ev.res.dead) > 0
    /\ Len(ev.res.foods) > Len(ev.res.foodsEaten)
    /\ \E i \in 1..Len(ev.res.moved) :
            /\ ev.res.fed[i].score = ev.res.ate[i].score + 300
            /\ \E k \in 1..Len(ev.before.gameState.bonusFood) :
                    /\ ev.before.gameState.bonusFood[k].type = "zillow"
                    /\ eaterOf(ev.before.gameState.bonusFood[k]) = i
    /\ Len(rooms[ev.room].gameState.bonusFood) > 0


\* the worms that died in the last step, by index
diedInStep ==
    {i \in 1..Len(ev.res.fed) : ev.res.fed[i].alive /\ ~steppedPlayers[i].alive}

\* the points the food bursts of the worms from index k on add
RECURSIVE burstTotal(_)
burstTotal(k) ==
    IF k > Len(ev.res.fed) THEN 0
    ELSE (IF k \in diedInStep THEN burstSize(ev.res.fed[k]) ELSE 0) + burstTotal(k + 1)

\* the case of a death outside the room's world: a worm died in the last
\* step with its head beyond the world and left a food burst (SpecFeed
\* reaches it, after a respawn that drew the position in the chill world)
deathOutsideWorld ==
    /\ ev.kind = "tick"
    /\ \E i \in diedInStep :
            /\ ~insideWorld(ev.res.fed[i].pos, ev.before.config.world)
            /\ burstSize(ev.res.fed[i]) > 0

\* C24: food burst size.  When a worm with body length L and score S dies
\* in stepRoom, exactly floor(min(L,150)/3) + min(floor(S/8),25) points are
\* appended to the room's plain food for that death, the numbers
\* calculateFoodBurst(L,S) returns (L=150, S=200 gives 50+25; L=300, S=1000
\* gives 50+25), and every appended point lies inside the room's world.
C24_FoodBurstSize ==
    /\ calculateFoodBurst(150, 2000) = [segmentFood |-> 50, bonusFood |-> 25]
    /\ calculateFoodBurst(300, 10000) = [segmentFood |-> 50, bonusFood |-> 25]
    /\ ev.kind = "tick" =>
            /\ \A i \in diedInStep :
                    LET L == Len(ev.res.fed[i].body)
                        S == ev.res.fed[i].score
                    IN  burstSize(ev.res.fed[i]) =
                            calculateFoodBurst(L, S).segmentFood
                                + calculateFoodBurst(L, S).bonusFood
            /\ Len(ev.res.foods) = Len(ev.res.foodsEaten) + burstTotal(1)
            /\ SubSeq(ev.res.foods, 1, Len(ev.res.foodsEaten)) = ev.res.foodsEaten
            /\ \A k \in (Len(ev.res.foodsEaten) + 1)..Len(ev.res.foods) :
                    insideWorld(ev.res.foods[k], ev.before.config.world)

\* reached: a worm with at least three segments died and its burst added
\* points for its body and for its score
C24_Witness ==
    /\ ev.kind = "tick"
    /\ \E i \in diedInStep :
            /\ Len(ev.res.fed[i].body) >= 3
            /\ ev.res.fed[i].score >= 80
            /\ Len(ev.res.foods) >= Len(ev.res.foodsEaten) + 2


-----------------------------------------------------------------------------
(* Properties of the room loop *)

\* the open connections the session map binds to room r
boundTo(r) == {c \in ConnIds : conns[c].status = "open" /\ socketToRoom[c] = r}

\* C25: snapshot fan-out.  A snapshot built from room R is sent, once, to
\* every open connection currently bound to R and to no connection bound to
\* another room or to no room; its world, players, plain food and bonus food
\* are exactly R's after the step.  A tick that builds no snapshot sends
\* nothing.
C25_SnapshotFanOut ==
    ev.kind = "tick" =>
        IF ev.broadcast
        THEN /\ {sent[k].to : k \in 1..Len(sent)} = boundTo(ev.room)
             /\ Len(sent) = Cardinality(boundTo(ev.room))
             /\ \A k \in 1..Len(sent) :
                    /\ sent[k].type = "state"
                    /\ sent[k].snapshot.world = rooms[ev.room].config.world
                    /\ sent[k].snapshot.players =
                            [i \in 1..Len(steppedPlayers) |-> toView(steppedPlayers[i])]
                    /\ sent[k].snapshot.foods = rooms[ev.room].gameState.foods
                    /\ sent[k].snapshot.bonusFood =
                            (IF Len(rooms[ev.room].gameState.bonusFood) > 0
                             THEN <<rooms[ev.room].gameState.bonusFood>> ELSE <<>>)
        ELSE sent = <<>>

\* reached: a snapshot of arena1 has been sent to the one connection bound
\* to arena1 while another open connection is bound to chill, and arena1
\* has a worm to show
C25_Witness ==
    /\ ev.kind = "tick"
    /\ ev.room = "arena1"
    /\ ev.broadcast
    /\ Len(sent) = 1
    /\ Len(sent[1].snapshot.players) > 0
    /\ \E c \in ConnIds : conns[c].status = "open" /\ socketToRoom[c] = "chill"


\* whether at least STATE_INTERVAL_MS = 1000 / STATE_HZ had elapsed since the
\* room's last broadcast when the last tick ran
intervalElapsed == (ev.now - ev.before.lastBroadcastTime) * STATE_HZ >= 1000

throttledTick ==
    /\ ev.kind = "tick"
    /\ ~ev.broadcast
    /\ boundTo(ev.room) # {}
    /\ ev.before.lastBroadcastTime > 0
    /\ ev.now > ev.before.lastBroadcastTime


-----------------------------------------------------------------------------
(* Properties of the message handler (SpecMsg) *)

\* C27: malformed and out-of-context messages are dropped silently.  A
\* message that cannot be parsed, has an unknown type, lacks a required
\* field (turn without dir, boost without boosting), is a turn whose dir is
\* not -1, 0 or 1, or is a turn, boost or respawn on a connection that has
\* not said hello changes no worm and no room and produces no reply.
C27_MalformedDropped ==
    [][( \/ ev'.kind \in {"ignored", "boostNoField"}
         \/ ev'.kind = "turn" /\ ev'.dir \notin {-1, 0, 1}
         \/ /\ ev'.kind \in {"turn", "boost", "respawn"}
            /\ \E c \in ConnIds : c = ev'.conn /\ conns[c].me = Null )
        => /\ rooms' = rooms
           /\ players' = players
           /\ sent' = <<>>]_vars


\* C28: spectator join.  A hello in spectating mode binds the connection to
\* the requested room (the default room when none is named), creates no
\* worm, and is answered by a welcome with an empty self id and that room's
\* world; later turn, boost and respawn messages on a connection that has
\* joined only as spectator change nothing.
C28_SpectatorJoin ==
    [][\A c \in ConnIds :
        /\ (ev'.kind = "hello" /\ ev'.conn = c /\ ev'.mode = "spectating" /\ conns[c].me = Null)
            => /\ rooms' = rooms
               /\ players' = players
               /\ conns'[c].me = Null
               /\ socketToRoom'[c] = conns'[c].roomId
               /\ ev'.roomId \in RoomIds => socketToRoom'[c] = ev'.roomId
               /\ ev'.roomId = "" => socketToRoom'[c] = "chill"
               /\ \E k \in 1..Len(sent') :
                    /\ sent'[k].type = "welcome"
                    /\ sent'[k].to = c
                    /\ sent'[k].selfId = NoId
                    /\ socketToRoom'[c] \in RoomIds
                    /\ sent'[k].world = ROOM_CONFIGS[socketToRoom'[c]].world
        /\ (ev'.kind \in {"turn", "boost", "respawn"} /\ ev'.conn = c /\ conns[c].me = Null)
            => rooms' = rooms /\ players' = players]_vars


-----------------------------------------------------------------------------
(* Properties of the event loop (SpecLoop) *)

-----------------------------------------------------------------------------
(* Properties of rooms (SpecJoin) *)

\* C30: room isolation.  A stepRoom call on room R, and any turn, boost,
\* respawn or disconnect of a connection bound to R, leaves the players,
\* plain food, bonus food, state, timing and winner record of every other
\* room unchanged.
C30_RoomIsolation ==
    [][/\ ev'.kind = "tick" =>
            \A r \in RoomIds : r # ev'.room => rooms'[r] = rooms[r]
       /\ ev'.kind \in {"turn", "boost", "respawn", "close"} =>
            \A c \in ConnIds : \A r \in RoomIds :
                (c = ev'.conn /\ socketToRoom[c] \in RoomIds /\ r # socketToRoom[c])
                => /\ rooms'[r].gameState = rooms[r].gameState
                   /\ rooms'[r].state = rooms[r].state
                   /\ rooms'[r].timing = rooms[r].timing
                   /\ rooms'[r].tournament = rooms[r].tournament]_vars


-----------------------------------------------------------------------------
(* The pure helpers on their own: game-engine.ts and shared/engine/math *)

\* the arguments of one call: a coordinate or a delta v and a size
CoordArguments == {[v |-> v, size |-> size] : v \in -MaxCoord..MaxCoord, size \in 1..MaxSize}

\* the call of the comment above wrapDelta: from 2999 to 5 in a world 3000 wide
CrossEdgeArguments == [v |-> 5 - 2999, size |-> 3000]

\* scores, in tenths of a point
ScoreArguments == 0..MaxScore

\* the calls made: one function with its arguments
EngineCalls ==
    {[kind |-> "call", fn |-> "wrap", v |-> a.v, size |-> a.size] : a \in CoordArguments}
    \cup {[kind |-> "call", fn |-> "wrapDelta", v |-> a.v, size |-> a.size] :
            a \in CoordArguments \cup {CrossEdgeArguments}}
    \cup {[kind |-> "call", fn |-> fn, score |-> score] :
            fn \in {"calculateBodyLength", "calculateThickness"}, score \in ScoreArguments}

\* the server as it starts, with one call of a helper about to be made
InitEngine ==
    /\ rooms = initializeRooms
    /\ players = <<>>
    /\ conns = [c \in ConnIds |-> newConnection]
    /\ adminSockets = {}
    /\ socketToRoom = [c \in ConnIds |-> Null]
    /\ now = StartTime
    /\ sent = <<>>
    /\ ev \in EngineCalls
    /\ ticks = 0
    /\ msgs = 0
    /\ running = [phase |-> "none"]

\* a helper touches nothing of the server
Pure == UNCHANGED <<rooms, players, conns, adminSockets, socketToRoom, now, sent, ticks,
                    msgs, running>>

\* wrap(v, size), and wrap applied to its own result
CallWrap ==
    /\ ev.kind = "call" /\ ev.fn = "wrap"
    /\ ev' = [kind |-> "wrap", v |-> ev.v, size |-> ev.size,
              result |-> wrap(ev.v, ev.size),
              again |-> wrap(wrap(ev.v, ev.size), ev.size)]
    /\ Pure

\* wrapDelta(d, size)
CallWrapDelta ==
    /\ ev.kind = "call" /\ ev.fn = "wrapDelta"
    /\ ev' = [kind |-> "wrapDelta", d |-> ev.v, size |-> ev.size,
              result |-> wrapDelta(ev.v, ev.size)]
    /\ Pure

\* calculateBodyLength(score), and the same one tenth of a point higher
CallBodyLength ==
    /\ ev.kind = "call" /\ ev.fn = "calculateBodyLength"
    /\ ev' = [kind |-> "calculateBodyLength", score |-> ev.score,
              result |-> calculateBodyLength(ev.score),
              above |-> calculateBodyLength(ev.score + 1)]
    /\ Pure

\* calculateThickness(score), and the same one tenth of a point higher
CallThickness ==
    /\ ev.kind = "call" /\ ev.fn = "calculateThickness"
    /\ ev' = [kind |-> "calculateThickness", score |-> ev.score,
              result |-> calculateThickness(ev.score),
              above |-> calculateThickness(ev.score + 1)]
    /\ Pure

NextEngine ==
    \/ CallWrap
    \/ CallWrapDelta
    \/ CallBodyLength
    \/ CallThickness

SpecEngine == InitEngine /\ [][NextEngine]_vars

-----------------------------------------------------------------------------
(* Properties of the pure helpers (SpecEngine) *)

\* C31: for every v and every size > 0, wrap(v, size) lies in [0, size), and
\* wrap applied to that result gives the result back.
C31_WrapRange ==
    ev.kind = "wrap" =>
        /\ 0 <= ev.result
        /\ ev.result < ev.size
        /\ ev.again = ev.result

\* C32: for every d and every size > 0, wrapDelta(d, size) lies in
\* (-size/2, size/2] and differs from d by a multiple of size; d = -size/2
\* gives +size/2.
C32_WrapDeltaRange ==
    ev.kind = "wrapDelta" =>
        /\ 2 * ev.result > -ev.size
        /\ 2 * ev.result <= ev.size
        /\ (ev.result - ev.d) % ev.size = 0
        /\ (2 * ev.d = -ev.size => 2 * ev.result = ev.size)

\* C33: for world width 3000, wrapDelta(5 - 2999, 3000) is -6.
C33_CrossEdgeCase ==
    (ev.kind = "wrapDelta" /\ ev.d = 5 - 2999 /\ ev.size = 3000) => ev.result = -6


\* C34: calculateBodyLength(score) is min(300, max(15, floor(score x 0.8)))
\* for every score >= 0: never below 15, never above 300, non-decreasing in
\* score, 15 for score 10 and 11, 40 for score 50, 300 for score 500.
\* With the score s in tenths, floor(score x 0.8) is the n with
\* 100 n <= 8 s < 100 (n + 1).
C34_BodyLength ==
    ev.kind = "calculateBodyLength" =>
        /\ ev.result >= 15
        /\ ev.result <= 300
        /\ \/ ev.result = 15 /\ 8 * ev.score < 100 * 16
           \/ ev.result = 300 /\ 8 * ev.score >= 100 * 300
           \/ /\ 100 * ev.result <= 8 * ev.score
              /\ 8 * ev.score < 100 * (ev.result + 1)
        /\ ev.above >= ev.result
        /\ (ev.score = 100 => ev.result = 15)
        /\ (ev.score = 110 => ev.result = 15)
        /\ (ev.score = 500 => ev.result = 40)
        /\ (ev.score = 5000 => ev.result = 300)

\* calculateBodyLength was called with a score that gives a length strictly
\* between the two limits, and with one that reaches the cap
C34_Witness ==
    /\ ev.kind = "calculateBodyLength"
    /\ ev.score = 500
    /\ ev.result = 40
    /\ calculateBodyLength(MaxScore) = 300
    /\ (MaxScore * 8) \div 100 > 300

\* C35: calculateThickness(score) is non-decreasing in score, between 14 and
\* 28, 14 for every score up to 375, 14 + 0.1 x (score - 375) above that
\* until it reaches 28, 28 from score 515 on; 14 for 100 and 375, 24 for 475,
\* 28 for 1000.  Thickness is in hundredths, the score in tenths.
C35_Thickness ==
    ev.kind = "calculateThickness" =>
        /\ ev.result >= 1400
        /\ ev.result <= 2800
        /\ ev.above >= ev.result
        /\ (ev.score <= 3750 => ev.result = 1400)
        /\ (ev.score > 3750 /\ ev.score < 5150 => ev.result = 1400 + (ev.score - 3750))
        /\ (ev.score >= 5150 => ev.result = 2800)
        /\ (ev.score = 1000 => ev.result = 1400)
        /\ (ev.score = 3750 => ev.result = 1400)
        /\ (ev.score = 4750 => ev.result = 2400)
        /\ (ev.score = 10000 => ev.result = 2800)

\* calculateThickness was called with a score on the growing part, and the
\* scores called include one beyond the cap
C35_Witness ==
    /\ ev.kind = "calculateThickness"
    /\ ev.score = 4750
    /\ ev.result = 2400
    /\ calculateThickness(MaxScore) = 2800
    /\ MaxScore > 5150


-----------------------------------------------------------------------------
(* The spatial grid on its own (SpecGrid) *)

\* the worlds a grid is built for
GridRooms == {"deathmatch", "chill"}

\* points inside a world: in the first column and row, on both sides of the
\* first cell border, in the third cell, and in the last column and row
GridPoints(world) ==
    {[x |-> x, y |-> y] :
        x \in {0, CELL_SIZE - 1, CELL_SIZE, 2 * CELL_SIZE + 500, world.width - 1},
        y \in {500, 3 * CELL_SIZE, world.height - 1}}

\* call is a grid of a room's world, a body of MaxSegments segments to
\* insert into it, and a position to query
GridCalls(call) ==
    \E r \in GridRooms :
        \E body \in [1..MaxSegments -> GridPoints(ROOM_CONFIGS[r].world)] :
            \E pos \in GridPoints(ROOM_CONFIGS[r].world) :
                call = [kind |-> "call", fn |-> "queryNearby", room |-> r,
                        body |-> body, pos |-> pos]

\* heads inside a world: at the world's edges and on both sides of the first
\* cell borders
HeadPoints(world) ==
    {[x |-> x, y |-> y] :
        x \in {0, CELL_SIZE - 50, CELL_SIZE + 50, world.width - 50},
        y \in {50, CELL_SIZE - 50, world.height - 50}}

\* where a segment lies relative to a head: within HEAD_R2 along an axis
\* (139, 0) or on a diagonal (90, 90), just out of it (139, 90), or a cell
\* away
SegmentOffsets ==
    {[x |-> dx, y |-> dy] : dx \in {-139, -90, 0, 90, 139, 1040}, dy \in {-90, 0, 90}}

\* the points a segment of a worm of room r can lie at: the room's world
\* and, in a room smaller than chill, the strip beyond its far edges that a
\* worm respawned in the world of chill is in after its first step (one
\* wrap takes off one width only)
segmentInReach(r, s) ==
    LET world == ROOM_CONFIGS[r].world
        chill == ROOM_CONFIGS["chill"].world
    IN  /\ s.x >= 0
        /\ s.y >= 0
        /\ s.x < Max(world.width, chill.width + BASE_SPEED - world.width)
        /\ s.y < Max(world.height, chill.height + BASE_SPEED - world.height)

\* three worms of a room after the eating loops: the first with its head at
\* pos, the second alive with a segment at s, the third dead where the first
\* one's head is; every worm's segment 0 is at its own head
wormsAt(pos, s) ==
    LET worm(id, at, alive) ==
            [id |-> id, pos |-> at, body |-> <<at>>, alive |-> alive]
    IN  <<worm(1, pos, TRUE), worm(2, s, TRUE), worm(3, pos, FALSE)>>

HeadHitCalls ==
    UNION { {[kind |-> "call", fn |-> "headHit", room |-> r,
              ps |-> wormsAt(at[1], [x |-> at[1].x + at[2].x, y |-> at[1].y + at[2].y])] :
                at \in {a \in HeadPoints(ROOM_CONFIGS[r].world) \X SegmentOffsets :
                          segmentInReach(r, [x |-> a[1].x + a[2].x, y |-> a[1].y + a[2].y])}} :
            r \in GridRooms }

InitGrid ==
    /\ rooms = initializeRooms
    /\ players = <<>>
    /\ conns = [c \in ConnIds |-> newConnection]
    /\ adminSockets = {}
    /\ socketToRoom = [c \in ConnIds |-> Null]
    /\ now = StartTime
    /\ sent = <<>>
    /\ \/ GridCalls(ev)
       \/ ev \in HeadHitCalls
    /\ ticks = 0
    /\ msgs = 0
    /\ running = [phase |-> "none"]

\* new SpatialGrid(world.width, world.height, 100), grid.insert of every
\* segment of the body with its index, then grid.queryNearby(pos)
CallQueryNearby ==
    /\ ev.kind = "call" /\ ev.fn = "queryNearby"
    /\ LET world == ROOM_CONFIGS[ev.room].world
           grid == insertBody(SpatialGrid(world.width, world.height, CELL_SIZE),
                              [id |-> 1, body |-> ev.body], 0)
       IN  ev' = [kind |-> "queryNearby", room |-> ev.room, body |-> ev.body,
                  pos |-> ev.pos, cols |-> grid.cols, rows |-> grid.rows,
                  nearby |-> queryNearby(grid, ev.pos)]
    /\ Pure

\* the body pass of stepRoom for the first worm: the grid built from the
\* bodies of the living worms, and the test of its head against the segments
\* the query returns
CallHeadHit ==
    /\ ev.kind = "call" /\ ev.fn = "headHit"
    /\ LET world == ROOM_CONFIGS[ev.room].world
           grid == buildGrid(SpatialGrid(world.width, world.height, CELL_SIZE), ev.ps, 1)
       IN  ev' = [kind |-> "headHit", room |-> ev.room, ps |-> ev.ps,
                  hit |-> headHit(ev.ps[1], grid)]
    /\ Pure

NextGrid ==
    \/ CallQueryNearby
    \/ CallHeadHit

SpecGrid == InitGrid /\ [][NextGrid]_vars

\* the cell of a point: column and row, counted from 0
cellOf(p) == <<p.x \div CELL_SIZE, p.y \div CELL_SIZE>>

\* cell a is in the 3x3 block around cell q of a grid of cols x rows cells,
\* the indices taken modulo the grid dimensions
inBlock(a, q, cols, rows) ==
    /\ \E dx \in {-1, 0, 1} : a[1] = (q[1] + dx) % cols
    /\ \E dy \in {-1, 0, 1} : a[2] = (q[2] + dy) % rows

\* C36: a segment inserted at a point inside the world is returned by a
\* query at that point; a query returns exactly the inserted segments whose
\* cell is in the 3x3 block of cells around the cell of the queried point,
\* both cell indices wrapped modulo the grid dimensions, each once.
C36_GridMembership ==
    ev.kind = "queryNearby" =>
        LET returned(n) == \E k \in 1..Len(ev.nearby) :
                              /\ ev.nearby[k].segmentIndex = n - 1
                              /\ ev.nearby[k].segment = ev.body[n]
                              /\ ev.nearby[k].ownerId = 1
            near == {n \in 1..Len(ev.body) :
                        inBlock(cellOf(ev.body[n]), cellOf(ev.pos), ev.cols, ev.rows)}
        IN  /\ \A n \in 1..Len(ev.body) : ev.body[n] = ev.pos => returned(n)
            /\ \A n \in 1..Len(ev.body) : returned(n) <=> n \in near
            /\ Len(ev.nearby) = Cardinality(near)
            /\ \A k \in 1..Len(ev.nearby) :
                    /\ ev.nearby[k].segmentIndex + 1 \in 1..Len(ev.body)
                    /\ ev.nearby[k].segment = ev.body[ev.nearby[k].segmentIndex + 1]

\* a query in the first column returned a segment of the last column, and
\* left out a segment two columns to the right
C36_Witness ==
    /\ ev.kind = "queryNearby"
    /\ cellOf(ev.pos)[1] = 0
    /\ \E k \in 1..Len(ev.nearby) : cellOf(ev.nearby[k].segment)[1] = ev.cols - 1
    /\ \E n \in 1..Len(ev.body) :
            /\ cellOf(ev.body[n])[1] = 2
            /\ \A k \in 1..Len(ev.nearby) : ev.nearby[k].segmentIndex # n - 1


\* worm i of the worms ps has its head inside the world of room r
headInside(ps, i, r) ==
    /\ 0 <= ps[i].pos.x /\ ps[i].pos.x < ROOM_CONFIGS[r].world.width
    /\ 0 <= ps[i].pos.y /\ ps[i].pos.y < ROOM_CONFIGS[r].world.height

\* the brute-force test: some segment of some living worm of ps is not an
\* own segment below the hinge and is within HEAD_R2 of the head of worm i
bruteForceHit(ps, i) ==
    \E k \in 1..Len(ps) : \E n \in 1..Len(ps[k].body) :
        /\ ps[k].alive
        /\ ~(ps[k].id = ps[i].id /\ n - 1 < HINGE)
        /\ dist2(ps[i].pos, ps[k].body[n]) < HEAD_R2

\* C37: for a living worm whose head is inside the room's world, the test of
\* the head against the segments queryNearby returns gives a kill exactly
\* when the test against all segments of all living worms does.
C37_GridEqualsBruteForce ==
    (ev.kind = "headHit" /\ ev.ps[1].alive /\ headInside(ev.ps, 1, ev.room)) =>
        (ev.hit <=> bruteForceHit(ev.ps, 1))

\* a head was killed by a segment in a cell diagonal to its own
C37_Witness ==
    /\ ev.kind = "headHit"
    /\ headInside(ev.ps, 1, ev.room)
    /\ ev.hit
    /\ cellOf(ev.ps[2].body[1])[1] # cellOf(ev.ps[1].pos)[1]
    /\ cellOf(ev.ps[2].body[1])[2] # cellOf(ev.ps[1].pos)[2]

\* a head inside the world of deathmatch was killed by a segment beyond the
\* world's far edge, found through the wrapped cell index
hitAcrossEdge ==
    /\ ev.kind = "headHit"
    /\ headInside(ev.ps, 1, ev.room)
    /\ ev.hit
    /\ ev.ps[2].body[1].x >= ROOM_CONFIGS[ev.room].world.width

\* a segment a cell away is not returned and does not kill
missFarSegment ==
    /\ ev.kind = "headHit"
    /\ ~ev.hit
    /\ ev.ps[2].body[1].x - ev.ps[1].pos.x > CELL_SIZE


-----------------------------------------------------------------------------
(* Properties of the tournament state machine (SpecAdmin) *)

\* the rooms of type tournament
tournamentRooms == {r \in RoomIds : ROOM_CONFIGS[r].type = "tournament"}

\* the last handler was an admin command, let through, that takes room r
\* out of waiting: a startTournament that names r or an endRound of r
startsOrEnds(e, r) ==
    /\ e.kind = "admin"
    /\ e.isAdmin
    /\ \/ e.msg.type = "admin:startTournament" /\ r \in namedRooms(e.msg)
       \/ e.msg.type = "admin:endRound" /\ "roomId" \in DOMAIN e.msg /\ e.msg.roomId = r

\* C38: a tournament room is always in one of the states waiting, active,
\* finished (never ready_check, countdown or freeplay), and it leaves
\* waiting only in an admin:startTournament or an admin:endRound.
C38_TournamentStates ==
    /\ \A r \in tournamentRooms : rooms[r].state = "waiting"
    /\ [][ \A r \in tournamentRooms :
              /\ rooms'[r].state \in {"waiting", "active", "finished"}
              /\ (rooms[r].state = "waiting" /\ rooms'[r].state # "waiting")
                    => startsOrEnds(ev', r)
         ]_vars

\* arena1 was waiting while a worm joined it and its loop ran, and an
\* admin:endRound has just taken it from waiting to finished
C38_Witness ==
    /\ ev.kind = "admin"
    /\ ev.msg = [type |-> "admin:endRound", roomId |-> "arena1"]
    /\ ev.before["arena1"].state = "waiting"
    /\ rooms["arena1"].state = "finished"
    /\ ticks >= 1
    /\ Len(rooms["arena1"].gameState.activePlayers) >= 1

\* the winner record of room r
winnerRecord(r) == rooms[r].tournament.topPlayers

\* a room with a winner recorded is finished
winnerMeansFinished ==
    \A r \in tournamentRooms : Len(winnerRecord(r)) > 0 => rooms[r].state = "finished"

\* C39: a room whose winner record is not empty is in state finished, and
\* while a room stays finished its winner record does not change, whatever
\* happens to the worms of the room.
C39_WinnerRecord ==
    /\ winnerMeansFinished
    /\ [][ /\ winnerMeansFinished'
           /\ \A r \in tournamentRooms :
                (rooms[r].state = "finished" /\ rooms'[r].state = "finished")
                    => rooms'[r].tournament = rooms[r].tournament
         ]_vars

\* arena1 is finished with a winner recorded, and the winning worm has
\* left the room since: its connection has just closed
C39_Witness ==
    /\ ev.kind = "close"
    /\ rooms["arena1"].state = "finished"
    /\ Len(winnerRecord("arena1")) > 0
    /\ \A i \in 1..Len(rooms["arena1"].gameState.activePlayers) :
            rooms["arena1"].gameState.activePlayers[i].id # winnerRecord("arena1")[1].id

\* arena1 is finished with a winner recorded and its loop has run again
\* since the round ended
tickWhileFinished ==
    /\ ev.kind = "tick"
    /\ ev.before.state = "finished"
    /\ Len(winnerRecord("arena1")) > 0


-----------------------------------------------------------------------------
(* A crowded spot: several worms spawn next to each other (SpecCrowd) *)

CrowdConns == 1..MaxCrowd

\* the spawn draws of connection c: a quarter of a unit further along x for
\* each connection, all heading along +x
CrowdSpawnDraw(c) == [x |-> 500 + 25 * (c - 1), y |-> 500, a |-> 0]

\* the server as it starts, with MaxCrowd connections to come
InitCrowd ==
    /\ rooms = initializeRooms
    /\ players = <<>>
    /\ conns = [c \in CrowdConns |-> newConnection]
    /\ adminSockets = {}
    /\ socketToRoom = [c \in CrowdConns |-> Null]
    /\ now = StartTime
    /\ sent = <<>>
    /\ ev = [kind |-> "start"]
    /\ ticks = 0
    /\ msgs = 0
    /\ running = [phase |-> "none"]

\* worms join deathmatch once each, and the room's loop runs
NextCrowd ==
    \/ \E c \in CrowdConns : Connect(c) /\ Idle
    \/ \E c \in CrowdConns :
            /\ msgs < CrowdMsgs
            /\ conns[c].me = Null
            /\ Hello(c, "deathmatch", "playing", "", "ann", "", CrowdSpawnDraw(c))
            /\ Handled
    \/ ticks < CrowdTicks /\ Tick("deathmatch", TickDraw) /\ Ticked

SpecCrowd == InitCrowd /\ [][NextCrowd]_vars

\* the ids of the returned dead list
deadIds == {ev.res.dead[m] : m \in 1..Len(ev.res.dead)}

\* C40: the dead list one stepRoom call returns holds each worm id at most
\* once and holds exactly the worms that were alive when the call began and
\* are dead when it ends, and one food burst is added for each of them, also
\* when a head is within HEAD_R2 of two or more other heads.
C40_DeathReportedOnce ==
    ev.kind = "tick" =>
        /\ \A m, n \in 1..Len(ev.res.dead) : ev.res.dead[m] = ev.res.dead[n] => m = n
        /\ deadIds = {ev.res.fed[i].id : i \in diedInStep}
        /\ \A i \in 1..Len(ev.res.fed) :
                ev.res.fed[i].alive = ev.before.gameState.activePlayers[i].alive
        /\ Len(ev.res.foods) = Len(ev.res.foodsEaten) + burstTotal(1)

=============================================================================
